---- MODULE Spec2Model ----
(***************************************************************************)
(* A model of parse_double (src/parse_double.cpp): the scanner as a state  *)
(* machine over the labels of the C++ function, and the integer-only       *)
(* decimal-to-binary conversion computed on 64-bit words.                  *)
(*                                                                         *)
(* 64-bit words.  TLC's integers are 32 bits wide, so a uint64_t is kept   *)
(* as eight base-256 limbs, least significant first: the word <<l1..l8>>   *)
(* is l1 + 256*l2 + ... + 256^7*l8.  Every operation below is the C++      *)
(* operation on uint64_t, wrap-around (mod 2^64) included.  An int64_t is  *)
(* the same eight limbs in two's complement.                               *)
(***************************************************************************)
EXTENDS Integers, Sequences, FiniteSets, TLC

(***************************************************************************)
(* Limb arithmetic on naturals of any width (little-endian base 256).      *)
(***************************************************************************)

\* the function f on 1..n as a tuple (the same value, with its elements evaluated)
Tuple(f, n) == SubSeq(f, 1, n)

\* e, with x evaluated first (the same value; it keeps the evaluation of a chain of
\* steps from nesting)
Strict(x, e) == IF x = x THEN e ELSE e

\* F(x) and G(x, y) with the arguments evaluated once, however often the operator
\* uses them (the same values as F(x) and G(x, y))
Once(F(_), x) == CHOOSE r \in {F(v) : v \in {x}} : TRUE
Once2(G(_, _), x, y) == CHOOSE r \in {G(v, w) : v \in {x}, w \in {y}} : TRUE

\* the limbs of s cut or zero-extended to n limbs (the value mod 256^n)
Limbs(s, n) ==
    Once(LAMBDA v : Tuple([i \in 1..n |-> IF i <= Len(v) THEN v[i] ELSE 0], n), s)

\* a small natural (below 2^31) as n limbs
NatLimbs(v, n) ==
    Once(LAMBDA w : Tuple([i \in 1..n |-> IF i > 4 THEN 0 ELSE (w \div 256 ^ (i - 1)) % 256], n),
         v)

\* the value of a limb sequence known to be small (below 2^31)
RECURSIVE LimbsNat(_)
LimbsNat(s) == IF s = << >> THEN 0 ELSE Head(s) + 256 * LimbsNat(Tail(s))

\* the position of the highest non-zero limb of s (0 for zero)
TopLimb(s) ==
    LET nz == {i \in 1..Len(s) : s[i] # 0}
    IN  IF nz = {} THEN 0 ELSE CHOOSE i \in nz : \A j \in nz : j <= i

\* s without its high zero limbs (the canonical form of a natural)
StripLimbs(s) == SubSeq(s, 1, TopLimb(s))

\* The columns lo..hi of a sum or product (cols[i] is what column i holds before
\* the carries) with the carry c coming in, by halves: <<limbs lo..hi, carry out>>.
\* A negative column gives the limb mod 256 and the carry -1 (a borrow).
RECURSIVE CarryRange(_, _, _, _)
CarryRange(cols, lo, hi, c) ==
    IF lo = hi
    THEN <<<<(cols[lo] + c) % 256>>, (cols[lo] + c) \div 256>>
    ELSE Once(LAMBDA low :
                  Once(LAMBDA high : <<low[1] \o high[1], high[2]>>,
                       CarryRange(cols, (lo + hi) \div 2 + 1, hi, low[2])),
              CarryRange(cols, lo, (lo + hi) \div 2, c))

\* a + b + c from limb i on, as the limbs i..n followed by the carry out
AddLimbsFrom(a, b, i, c, n) ==
    IF i > n THEN <<c>>
    ELSE Once(LAMBDA r : r[1] \o <<r[2]>>,
              CarryRange(Tuple([j \in 1..n |-> a[j] + b[j]], n), i, n, c))

AddLimbs(a, b, n) ==
    Once2(LAMBDA x, y : AddLimbsFrom(x, y, 1, 0, n), Limbs(a, n), Limbs(b, n))

\* a - b - brw from limb i on, mod 256^n: the limbs i..n
SubLimbsFrom(a, b, i, brw, n) ==
    IF i > n THEN << >>
    ELSE CarryRange(Tuple([j \in 1..n |-> a[j] - b[j]], n), i, n, -brw)[1]

SubLimbs(a, b, n) ==
    Once2(LAMBDA x, y : SubLimbsFrom(x, y, 1, 0, n), Limbs(a, n), Limbs(b, n))

\* k * a + c for a small k (k < 2^22) and carry c, as Len(a) limbs and the carry out
MulSmallFrom(a, k, i, c) ==
    IF i > Len(a) THEN <<c>>
    ELSE Once(LAMBDA r : r[1] \o <<r[2]>>,
              CarryRange(Tuple([j \in 1..Len(a) |-> k * a[j]], Len(a)), i, Len(a), c))

\* unsigned comparison of the limbs 1..i of two limb sequences
LessFrom(a, b, i) ==
    LET differ == {j \in 1..i : a[j] # b[j]}
    IN  differ # {} /\ LET top == CHOOSE j \in differ : \A k \in differ : k <= j
                       IN  a[top] < b[top]

\* column k of the schoolbook product of a and b (n limbs each)
RECURSIVE ColumnSum(_, _, _, _, _)
ColumnSum(a, b, k, i, n) ==
    IF i > n \/ i > k THEN 0
    ELSE (IF k - i + 1 <= n THEN a[i] * b[k - i + 1] ELSE 0) + ColumnSum(a, b, k, i + 1, n)

\* the full product of two n-limb numbers: 2n limbs
MulLimbs(a, b, n) ==
    Once2(LAMBDA x, y :
              Once(LAMBDA cols : CarryRange(cols, 1, 2 * n, 0)[1],
                   Tuple([k \in 1..2 * n |->
                             ColumnSum(x, y, k, IF k > n THEN k - n ELSE 1, n)], 2 * n)),
          Limbs(a, n), Limbs(b, n))

Pow2(k) == 2 ^ k

\* floor(a / 2^s) for a of n limbs, as n limbs
ShrLimbs(a, s, n) ==
    LET q == s \div 8
        r == s % 8
        shifted(v) ==
            LET at(i) == IF i >= 1 /\ i <= Len(v) THEN v[i] ELSE 0
            IN  Tuple([i \in 1..n |->
                   (at(i + q) \div Pow2(r)) + (at(i + q + 1) % Pow2(r)) * Pow2(8 - r)], n)
    IN  Once(shifted, a)

\* a * 2^s mod 256^n, as n limbs
ShlLimbs(a, s, n) ==
    LET q == s \div 8
        r == s % 8
        shifted(v) ==
            LET at(i) == IF i >= 1 /\ i <= Len(v) THEN v[i] ELSE 0
            IN  Tuple([i \in 1..n |->
                   ((at(i - q) * Pow2(r)) % 256) + (at(i - q - 1) \div Pow2(8 - r))], n)
    IN  Once(shifted, a)

\* bitwise AND and OR of two bytes
RECURSIVE BitAnd(_, _)
BitAnd(x, y) ==
    IF x = 0 \/ y = 0 THEN 0
    ELSE (x % 2) * (y % 2) + 2 * BitAnd(x \div 2, y \div 2)

BitOr(x, y) == x + y - BitAnd(x, y)

\* number of significant bits of a limb sequence (0 for zero)
RECURSIVE ByteBits(_)
ByteBits(x) == IF x = 0 THEN 0 ELSE 1 + ByteBits(x \div 2)

BitLength(a) ==
    LET s == StripLimbs(a)
    IN  IF s = << >> THEN 0 ELSE 8 * (Len(s) - 1) + ByteBits(s[Len(s)])

(***************************************************************************)
(* uint64_t.                                                               *)
(***************************************************************************)

\* the word written as four 16-bit groups, most significant first
W64(h3, h2, h1, h0) ==
    <<h0 % 256, h0 \div 256, h1 % 256, h1 \div 256,
      h2 % 256, h2 \div 256, h3 % 256, h3 \div 256>>

\* (uint64_t)v for a small natural v
U64(v) == NatLimbs(v, 8)

Zero64 == U64(0)

Add64(a, b) == SubSeq(AddLimbs(a, b, 8), 1, 8)
Sub64(a, b) == SubLimbs(a, b, 8)
Less64(a, b) == Once2(LAMBDA x, y : LessFrom(x, y, 8), a, b)
Shr64(a, s) == ShrLimbs(a, s, 8)
Shl64(a, s) == ShlLimbs(a, s, 8)
And64(a, b) == Once2(LAMBDA x, y : Tuple([i \in 1..8 |-> BitAnd(x[i], y[i])], 8), a, b)
Or64(a, b) == Once2(LAMBDA x, y : Tuple([i \in 1..8 |-> BitOr(x[i], y[i])], 8), a, b)

\* 10 * a + d in uint64_t arithmetic
MulAdd10(a, d) == SubSeq(MulSmallFrom(a, 10, 1, d), 1, 8)

\* the high word of the 128-bit product a * b (the *hi of _umul128)
umul128_hi(a, b) == SubSeq(MulLimbs(a, b, 8), 9, 16)

\* the sign test made on the uint64_t: never negative
Negative64_unsigned(a) == FALSE

\* (int64_t)a < 0
Negative64(a) == a[8] >= 128

(***************************************************************************)
(* mulf64: product of two normalized numbers 2^e * (1 + m / 2^64).         *)
(***************************************************************************)
\* mulf64 without the high half of the product of the mantissas
mulf64_without_hi(mx, ex, my, ey) ==
    LET m1 == Add64(mx, my)
    IN  IF Less64(m1, my)
        THEN [mantissa |-> Or64(Shr64(m1, 1), Shl64(U64(2), 63)), binexp |-> ex + ey + 1]
        ELSE [mantissa |-> m1, binexp |-> ex + ey]

\* mulf64 dropping the second carry when the mantissa is renormalized
mulf64_single_carry(mx, ex, my, ey) ==
    LET hi == umul128_hi(mx, my)
        m1 == Add64(mx, my)
        o1 == IF Less64(m1, my) THEN 1 ELSE 0
        m2 == Add64(m1, hi)
        o2 == IF Less64(m2, hi) THEN 1 ELSE 0
    IN  IF o1 + o2 # 0
        THEN [mantissa |-> Shr64(m2, 1), binexp |-> ex + ey + 1]
        ELSE [mantissa |-> m2, binexp |-> ex + ey]

mulf64(mx, ex, my, ey) ==
    Once2(LAMBDA hi, m1 :
              Once(LAMBDA m2 :
                       LET o1 == IF Less64(m1, my) THEN 1 ELSE 0
                           o2 == IF Less64(m2, hi) THEN 1 ELSE 0
                           overflow == o1 + o2
                       IN  IF overflow # 0
                           THEN [mantissa |-> Or64(Shr64(m2, 1), Shl64(U64(overflow + 1), 63)),
                                 binexp |-> ex + ey + 1]
                           ELSE [mantissa |-> m2, binexp |-> ex + ey],
                   Add64(m1, hi)),
          umul128_hi(mx, my), Add64(mx, my))

\* 10^(2^k), k = 8..0: mantissa without the leading 1 bit, and binary exponent
mant1e256 == W64(\b0101010011111101, \b1101011111110111, \b0011101111110011, \b1011110100011100)
exp1e256 == 850
mant1e128 == W64(\b0010011101110100, \b1000111110010011, \b0000000111010011, \b0001100111000000)
exp1e128 == 425
mant1e64 == W64(\b1000010011110000, \b0011111010010011, \b1111111110011111, \b0100110110101010)
exp1e64 == 212
mant1e32 == W64(\b0011101110001011, \b0101101101010000, \b0101011011100001, \b0110101100111100)
exp1e32 == 106
mant1e16 == W64(\b0001110000110111, \b1001001101111110, \b0000100000000000, \b0000000000000000)
exp1e16 == 53
mant1e8 == W64(\b0111110101111000, \b0100000000000000, \b0000000000000000, \b0000000000000000)
exp1e8 == 26
mant1e4 == W64(\b0011100010000000, \b0000000000000000, \b0000000000000000, \b0000000000000000)
exp1e4 == 13
mant1e2 == W64(\b1001000000000000, \b0000000000000000, \b0000000000000000, \b0000000000000000)
exp1e2 == 6
mant1e1 == W64(\b0100000000000000, \b0000000000000000, \b0000000000000000, \b0000000000000000)
exp1e1 == 3

\* 10^(-2^k), k = 8..0
mant1en256 == W64(\b1000000001100010, \b1000011001001010, \b1100011011110100, \b0011001001110100)
exp1en256 == -851
mant1en128 == W64(\b1011101110100000, \b1000110011111000, \b1100100101111001, \b1100100101000001)
exp1en128 == -426
mant1en64 == W64(\b0101000011111111, \b1101010001001111, \b0100101001110011, \b1101001101001010)
exp1en64 == -213
mant1en32 == W64(\b1001111101100010, \b0011110101011010, \b1000101001110011, \b0010100101110101)
exp1en32 == -107
mant1en16 == W64(\b1100110100101011, \b0010100101111101, \b1000100010011011, \b1100001010110111)
exp1en16 == -54
mant1en8 == W64(\b0101011110011000, \b1110111000100011, \b0000100011000011, \b1001110111111010)
exp1en8 == -27
mant1en4 == W64(\b1010001101101110, \b0010111010110001, \b1100010000110010, \b1100101001011000)
exp1en4 == -14
mant1en2 == W64(\b0100011110101110, \b0001010001111010, \b1110000101000111, \b1010111000010100)
exp1en2 == -7
mant1en1 == W64(\b1001100110011001, \b1001100110011001, \b1001100110011001, \b1001100110011010)
exp1en1 == -4

PositivePowers ==
    << <<256, mant1e256, exp1e256>>, <<128, mant1e128, exp1e128>>,
       <<64, mant1e64, exp1e64>>, <<32, mant1e32, exp1e32>>,
       <<16, mant1e16, exp1e16>>, <<8, mant1e8, exp1e8>>,
       <<4, mant1e4, exp1e4>>, <<2, mant1e2, exp1e2>>, <<1, mant1e1, exp1e1>> >>

NegativePowers ==
    << <<256, mant1en256, exp1en256>>, <<128, mant1en128, exp1en128>>,
       <<64, mant1en64, exp1en64>>, <<32, mant1en32, exp1en32>>,
       <<16, mant1en16, exp1en16>>, <<8, mant1en8, exp1en8>>,
       <<4, mant1en4, exp1en4>>, <<2, mant1en2, exp1en2>>, <<1, mant1en1, exp1en1>> >>

\* multiply_powers taking the constant for bit 1 from the positive table in either
\* direction
RECURSIVE multiply_powers_mixed(_, _, _, _)
multiply_powers_mixed(x, n, table, i) ==
    IF i = 0 THEN x
    ELSE LET prev == multiply_powers_mixed(x, n, table, i - 1)
             row == IF i = 9 THEN PositivePowers[9] ELSE table[i]
         IN  Strict(prev, IF And64(n, U64(row[1])) # Zero64
                          THEN mulf64(prev.mantissa, prev.binexp, row[2], row[3])
                          ELSE prev)

\* if (n & bit) mulf64(&mantissa, &binexp, mant, exp); for the rows 1..i of a table
RECURSIVE multiply_powers(_, _, _, _)
multiply_powers(x, n, table, i) ==
    IF i = 0 THEN x
    ELSE LET row == table[i]
         IN  Once(LAMBDA prev : IF And64(n, U64(row[1])) # Zero64
                                THEN mulf64(prev.mantissa, prev.binexp, row[2], row[3])
                                ELSE prev,
                  multiply_powers(x, n, table, i - 1))

\* one step of the leading-zero search: if (!(mantissa & mask)) { mantissa <<= s; binexp -= s; }
normalize_step(x, mask, s) ==
    Once(LAMBDA v : IF And64(v.mantissa, mask) = Zero64
                    THEN [mantissa |-> Shl64(v.mantissa, s), binexp |-> v.binexp - s]
                    ELSE v,
         x)

\* old_mantissa == 2^binexp + new_mantissa * 2^(binexp-64)
normalize(m) ==
    LET x0 == [mantissa |-> m, binexp |-> 63]
        x1 == normalize_step(x0, W64(\hFFFF, \hFFFF, 0, 0), 32)
        x2 == normalize_step(x1, W64(\hFFFF, 0, 0, 0), 16)
        x3 == normalize_step(x2, W64(\hFF00, 0, 0, 0), 8)
        x4 == normalize_step(x3, W64(\hF000, 0, 0, 0), 4)
        x5 == normalize_step(x4, W64(\hC000, 0, 0, 0), 2)
        x6 == normalize_step(x5, W64(\h8000, 0, 0, 0), 1)
    IN  [mantissa |-> Shl64(x6.mantissa, 1), binexp |-> x6.binexp]

\* the three bit patterns parse_double returns without assembling them
PlusInfinity == W64(\h7FF0, 0, 0, 0)
MinusInfinity == W64(\hFFF0, 0, 0, 0)
PlusNaN == W64(\h7FFF, \hFFFF, \hFFFF, \hFFFF)
MinusNaN == W64(\hFFFF, \hFFFF, \hFFFF, \hFFFF)
MinusZero == W64(\h8000, 0, 0, 0)

signed_infinity(neg) == IF neg THEN MinusInfinity ELSE PlusInfinity
signed_nan(neg) == IF neg THEN MinusNaN ELSE PlusNaN
\* signed_zero ignoring the sign
signed_zero_positive(neg) == Zero64

signed_zero(neg) == IF neg THEN MinusZero ELSE Zero64

\* apply_powers without the checks n >= 512 of lines 470 and 483
apply_powers_unchecked(x, fractional, decimal) ==
    IF ~Negative64(fractional) /\ fractional # Zero64
    THEN [ret |-> "value", x |-> multiply_powers(x, fractional, NegativePowers, 9)]
    ELSE IF decimal # Zero64
    THEN [ret |-> "value", x |-> multiply_powers(x, decimal, PositivePowers, 9)]
    ELSE [ret |-> "value", x |-> x]

\* shift the decimal point: ret is "zero", "infinity" or "value"
apply_powers(x, fractional, decimal) ==
    IF ~Negative64(fractional) /\ fractional # Zero64
    THEN IF ~Less64(fractional, U64(512))
         THEN [ret |-> "zero", x |-> x]
         ELSE [ret |-> "value", x |-> multiply_powers(x, fractional, NegativePowers, 9)]
    ELSE IF decimal # Zero64
    THEN IF ~Less64(decimal, U64(512))
         THEN [ret |-> "infinity", x |-> x]
         ELSE [ret |-> "value", x |-> multiply_powers(x, decimal, PositivePowers, 9)]
    ELSE [ret |-> "value", x |-> x]

\* subnormal leaving binexp as it is after the shift
subnormal_keeping_binexp(x) ==
    IF x.binexp <= -1023
    THEN IF x.binexp <= -1023 - 64
         THEN [ret |-> "zero", x |-> x]
         ELSE [ret |-> "value",
               x |-> [mantissa |-> Shr64(Or64(Shr64(x.mantissa, 1), W64(\h8000, 0, 0, 0)),
                                         -x.binexp - 1023),
                      binexp |-> x.binexp]]
    ELSE [ret |-> "value", x |-> x]

\* subnormal range: ret is "zero" or "value"
subnormal(x) ==
    IF x.binexp <= -1023
    THEN IF x.binexp <= -1023 - 64
         THEN [ret |-> "zero", x |-> x]
         ELSE [ret |-> "value",
               x |-> [mantissa |-> Shr64(Or64(Shr64(x.mantissa, 1), W64(\h8000, 0, 0, 0)),
                                         -x.binexp - 1023),
                      binexp |-> -1023]]
    ELSE [ret |-> "value", x |-> x]

\* round with the rounding step left out (plain truncation to 52 bits)
round_omitted(x) == x

\* round the mantissa before truncating it to 52 bits
round(x) ==
    IF Less64(U64(\h800), And64(x.mantissa, U64(\hFFF)))
    THEN LET m == Add64(x.mantissa, Shl64(U64(1), 11))
         IN  IF Less64(m, Shl64(U64(1), 11))
             THEN [mantissa |-> Shr64(m, 1), binexp |-> x.binexp + 1]
             ELSE [mantissa |-> m, binexp |-> x.binexp]
    ELSE x

\* truncate the mantissa to 52 bits and assemble the IEEE 754 double
assemble(x, neg) ==
    LET m1 == Shr64(x.mantissa, 12)
        m2 == Or64(m1, Shl64(U64(x.binexp + 1023), 52))
    IN  IF neg THEN Or64(m2, W64(\h8000, 0, 0, 0)) ELSE m2

\* finish without the overflow check of lines 520-523
finish_unchecked(x, neg) ==
    LET s == subnormal(x)
        r == round(s.x)
    IN  IF s.ret = "zero" THEN [ret |-> "zero", x |-> x, bits |-> signed_zero(neg)]
        ELSE [ret |-> "value", x |-> r, bits |-> assemble(r, neg)]

\* lines 496-538: ret is "zero", "infinity" or "value" (then bits is the double)
finish(x, neg) ==
    LET s == subnormal(x)
        r == round(s.x)
    IN  IF s.ret = "zero" THEN [ret |-> "zero", x |-> x, bits |-> signed_zero(neg)]
        ELSE IF r.binexp > 1023 THEN [ret |-> "infinity", x |-> r, bits |-> signed_infinity(neg)]
        ELSE [ret |-> "value", x |-> r, bits |-> assemble(r, neg)]

(***************************************************************************)
(* Input bytes.                                                            *)
(***************************************************************************)

\* the byte value of a character
Ord(c) ==
    CASE c = "0" -> 48 [] c = "1" -> 49 [] c = "2" -> 50 [] c = "3" -> 51
      [] c = "4" -> 52 [] c = "5" -> 53 [] c = "6" -> 54 [] c = "7" -> 55
      [] c = "8" -> 56 [] c = "9" -> 57 [] c = "+" -> 43 [] c = "-" -> 45
      [] c = "." -> 46 [] c = "e" -> 101 [] c = "E" -> 69 [] c = "i" -> 105
      [] c = "n" -> 110 [] c = "f" -> 102 [] c = "a" -> 97 [] c = "x" -> 120
      [] c = " " -> 32 [] c = "," -> 44 [] c = "b" -> 98 [] c = "c" -> 99
      [] c = "y" -> 121 [] c = "I" -> 73 [] c = "N" -> 78 [] c = "F" -> 70

\* a text, written as a tuple of characters, as bytes
Bytes(s) == Tuple([i \in 1..Len(s) |-> Ord(s[i])], Len(s))

\* ch - '0' converted to uint64_t
digit_value_of(ch) == Sub64(U64(ch), U64(Ord("0")))

\* digit_value <= 9
is_digit_value(dv) == ~Less64(U64(9), dv)

\* the limit without the adjustment for the digit
accumulator_limit_generic(dv) == W64(\h1999, \h9999, \h9999, \h9999)

\* (uint64_t)1844674407370955161 - (digit_value >= 6): the largest accumulator to
\* which the digit can still be appended (1844674407370955161 = 0x1999999999999999)
accumulator_limit(dv) ==
    Sub64(W64(\h1999, \h9999, \h9999, \h9999),
          U64(IF ~Less64(dv, U64(6)) THEN 1 ELSE 0))

(***************************************************************************)
(* The state of one call of parse_double.                                  *)
(***************************************************************************)
VARIABLES
    input,              \* the bytes of the text; the window holds the first end of them
    previous,           \* the results of the calls made before this one
    hist,               \* the Histogram: bins, nbins, binwidth
    frequent,           \* histogram_next_frequent: *index, *n and the value returned ("none" before the first call)
    enumerated,         \* the bins histogram_next_frequent has found, in order
    factor,             \* mulf64 called on its own: the arguments my and ey
    ptr,                \* s->ptr, as the number of bytes before it
    end,                \* s->end, as the number of bytes before it
    starved,            \* the call has found the window still empty after datastream_fetch
    failed,             \* st->failed
    error_message,      \* st->error_message: <<format, arguments...>>
    pc,                 \* the label the call is at
    ret,                \* the return statement the call left through
    bits,               \* the bit pattern of the double returned
    negative, mantissa, digits, significant_digits,
    fractional_digits, decimal_exponent,
    negative_exponent, absolute_exponent,
    binexp,
    word,               \* datastream_consume_word: the characters still expected
    keyword,            \* the word passed to datastream_consume_word
    asserted            \* the assertions that have failed

vars == <<input, previous, hist, frequent, enumerated, factor, ptr, end, starved, failed, error_message, pc, ret, bits,
          negative, mantissa, digits, significant_digits,
          fractional_digits, decimal_exponent,
          negative_exponent, absolute_exponent, binexp, word, keyword, asserted>>

hist_vars == <<hist, frequent, enumerated>>

scan_vars == <<negative, mantissa, digits, significant_digits,
               fractional_digits, decimal_exponent>>
exp_vars == <<negative_exponent, absolute_exponent>>
word_vars == <<word, keyword>>
status_vars == <<failed, error_message>>

\* int64_t -1
MinusOne64 == W64(\hFFFF, \hFFFF, \hFFFF, \hFFFF)

\* mulf64 is called by parse_double only
no_factor == [my |-> Zero64, ey |-> 0]

\* no histogram is in use during the calls of parse_double
HistogramUnused ==
    /\ hist = [bins |-> << >>, nbins |-> 0, binwidth |-> 1]
    /\ frequent = [index |-> 0, n |-> 0, returned |-> "none"]
    /\ enumerated = << >>

\* the state at the call on a stream whose window holds the first w bytes of in, and
\* the locals as declared in lines 201-207
InitCall(in, w) ==
    /\ input = in
    /\ previous = << >>
    /\ factor = no_factor
    /\ HistogramUnused
    /\ ptr = 0
    /\ end = w
    /\ starved = FALSE
    /\ failed = FALSE
    /\ error_message = << >>
    /\ pc = "start"
    /\ ret = "none"
    /\ bits = Zero64
    /\ negative = FALSE
    /\ mantissa = Zero64
    /\ digits = 0
    /\ significant_digits = 0
    /\ fractional_digits = MinusOne64
    /\ decimal_exponent = Zero64
    /\ negative_exponent = FALSE
    /\ absolute_exponent = Zero64
    /\ binexp = 0
    /\ word = << >>
    /\ keyword = ""
    /\ asserted = {}

\* datastream_fetch: the new s->end.  The function asserts its precondition and
\* provides nothing: the window stays as it is
datastream_fetch(e) == e

\* assert(s->ptr == s->end) in datastream_fetch
fetch_asserted == IF ptr = end THEN asserted ELSE asserted \cup {"fetch"}

\* whether a step that needs the byte at p calls datastream_fetch (the window is
\* empty at p), goes on (st->failed is not set) and finds the window still empty,
\* which the code takes for the end of the input
starves(p) == p = end /\ ~failed /\ p = datastream_fetch(end)

\* fail_here writing the message without setting st->failed
fail_here_unset(msg) ==
    /\ failed' = failed
    /\ error_message' = msg

\* fail_here(st, s, fmt, ...)
fail_here(msg) ==
    /\ failed' = TRUE
    /\ error_message' = msg

\* *s->ptr
current == input[ptr + 1]

(***************************************************************************)
(* parse_double, one action per label or loop iteration.                   *)
(***************************************************************************)

\* is_digit_byte taking '1'..'9' only
is_digit_byte_nonzero(ch) == ch >= Ord("1") /\ ch <= Ord("9")

is_digit_byte(ch) == ch >= Ord("0") /\ ch <= Ord("9")

\* lines 189-233: the first byte
Start ==
    /\ pc = "start"
    /\ starved' = (starved \/ starves(ptr))
    /\ UNCHANGED <<input, previous, factor, hist_vars, ret, bits, binexp, exp_vars, word_vars, decimal_exponent>>
    /\ asserted' = IF ptr = end THEN fetch_asserted ELSE asserted
    /\ LET e == IF ptr = end THEN datastream_fetch(end) ELSE end
       IN  /\ end' = e
           /\ IF ptr = end /\ failed
              THEN /\ pc' = "failed"
                   /\ UNCHANGED <<ptr, status_vars, negative, mantissa, digits,
                                  significant_digits, fractional_digits>>
              ELSE IF ptr = e
              THEN /\ fail_here(<<"Unexpected end-of-stream; expected decimal floating-point number.">>)
                   /\ pc' = "failed"
                   /\ UNCHANGED <<ptr, negative, mantissa, digits,
                                  significant_digits, fractional_digits>>
              ELSE LET ch == current
                       nonzero == ch >= Ord("1") /\ ch <= Ord("9")
                   IN  IF ch \in {Ord("i"), Ord("n")}
                       THEN /\ ptr' = ptr           \* s->ptr++, then put back
                            /\ pc' = IF ch = Ord("i") THEN "parse_infinity" ELSE "parse_nan"
                            /\ UNCHANGED <<status_vars, negative, mantissa, digits,
                                           significant_digits, fractional_digits>>
                       ELSE IF ch \in {Ord("-"), Ord("+"), Ord(".")} \/ is_digit_byte(ch)
                       THEN /\ ptr' = ptr + 1
                            /\ negative' = (ch = Ord("-"))
                            /\ mantissa' = IF nonzero THEN U64(ch - Ord("0")) ELSE mantissa
                            /\ digits' = IF is_digit_byte(ch) THEN digits + 1 ELSE digits
                            /\ significant_digits' =
                                   IF nonzero THEN significant_digits + 1 ELSE significant_digits
                            /\ fractional_digits' =
                                   IF ch = Ord(".") THEN Zero64 ELSE fractional_digits
                            /\ pc' = "main"
                            /\ UNCHANGED status_vars
                       ELSE /\ ptr' = ptr + 1
                            /\ fail_here(<<"Unexpected character (%s0x%02x) in numeric literal.", ch>>)
                            /\ pc' = "failed"
                            /\ UNCHANGED <<negative, mantissa, digits,
                                           significant_digits, fractional_digits>>

\* lines 236-415: one iteration of the main loop (one byte, or one refill)
MainLoop ==
    /\ pc = "main"
    /\ starved' = (starved \/ starves(ptr))
    /\ UNCHANGED <<input, previous, factor, hist_vars, ret, bits, binexp, exp_vars, word_vars, negative,
                   status_vars>>
    /\ IF ptr # end
       THEN LET ch == current
                dv == digit_value_of(ch)
            IN  /\ end' = end
                /\ IF is_digit_value(dv)
                   THEN LET limit == Less64(accumulator_limit(dv), mantissa)
                            \* :MantissaLimit
                            sd == IF limit THEN 20
                                  ELSE IF dv # Zero64 \/ significant_digits # 0
                                  THEN significant_digits + 1
                                  ELSE significant_digits
                        IN  /\ digits' = digits + 1
                            /\ asserted' = IF limit /\ significant_digits # 19
                                           THEN asserted \cup {"significant_digits == 19"}
                                           ELSE asserted
                            /\ significant_digits' = sd
                            /\ mantissa' = IF limit THEN mantissa
                                           ELSE MulAdd10(mantissa, LimbsNat(dv))
                            /\ decimal_exponent' =
                                   IF limit /\ Negative64(fractional_digits)
                                   THEN Add64(decimal_exponent, U64(1))
                                   ELSE decimal_exponent
                            /\ fractional_digits' =
                                   IF ~limit /\ ~Negative64(fractional_digits)
                                   THEN Add64(fractional_digits, U64(1))
                                   ELSE fractional_digits
                            /\ ptr' = ptr + 1
                            /\ pc' = IF sd >= 20 THEN "skip_digits" ELSE "main"
                   ELSE IF ch = Ord(".")
                   THEN IF ~Negative64(fractional_digits)
                        THEN /\ pc' = "end_of_number"
                             /\ UNCHANGED <<ptr, scan_vars, asserted>>
                        ELSE /\ fractional_digits' = Zero64
                             /\ ptr' = ptr + 1
                             /\ pc' = IF significant_digits >= 20 THEN "skip_digits" ELSE "main"
                             /\ UNCHANGED <<mantissa, digits, significant_digits,
                                            decimal_exponent, asserted>>
                   ELSE /\ pc' = IF ch \in {Ord("e"), Ord("E")} /\ digits # 0
                                 THEN "parse_exponent"
                                 ELSE IF ch = Ord("i") /\ digits = 0 THEN "parse_infinity"
                                 ELSE IF ch = Ord("n") /\ digits = 0 THEN "parse_nan"
                                 ELSE "end_of_number"
                        /\ UNCHANGED <<ptr, scan_vars, asserted>>
       ELSE LET e == datastream_fetch(end)
            IN  /\ end' = e
                /\ asserted' = fetch_asserted
                /\ pc' = IF failed THEN "failed"
                         ELSE IF ptr # e THEN "main" ELSE "end_of_number"
                /\ UNCHANGED <<ptr, scan_vars>>

\* lines 392-409: skip the digits that no longer fit the mantissa
SkipDigits ==
    /\ pc = "skip_digits"
    /\ starved' = (starved \/ starves(ptr))
    /\ UNCHANGED <<input, previous, factor, hist_vars, ret, bits, binexp, exp_vars, word_vars, negative,
                   status_vars, mantissa, digits, significant_digits>>
    /\ IF ptr # end
       THEN LET ch == current
                point == ch = Ord(".") /\ Negative64(fractional_digits)
                fd == IF point THEN Zero64 ELSE fractional_digits
            IN  /\ UNCHANGED <<end, asserted>>
                /\ IF ~point /\ ch \in {Ord("e"), Ord("E")}
                   THEN /\ pc' = "parse_exponent"
                        /\ UNCHANGED <<ptr, fractional_digits, decimal_exponent>>
                   ELSE IF ~point /\ (ch < Ord("0") \/ ch > Ord("9"))
                   THEN /\ pc' = "end_of_number"
                        /\ UNCHANGED <<ptr, fractional_digits, decimal_exponent>>
                   ELSE /\ fractional_digits' = fd
                        /\ decimal_exponent' = IF Negative64(fd)
                                               THEN Add64(decimal_exponent, U64(1))
                                               ELSE decimal_exponent
                        /\ ptr' = ptr + 1
                        /\ pc' = "skip_digits"
       ELSE LET e == datastream_fetch(end)
            IN  /\ end' = e
                /\ asserted' = fetch_asserted
                /\ pc' = IF failed THEN "failed"
                         ELSE IF ptr # e THEN "skip_digits" ELSE "end_of_number"
                /\ UNCHANGED <<ptr, fractional_digits, decimal_exponent>>

\* lines 277-296: the exponent marker and the exponent's sign
ParseExponent ==
    /\ pc = "parse_exponent"
    /\ starved' = (starved \/ starves(ptr + 1))
    /\ UNCHANGED <<input, previous, factor, hist_vars, ret, bits, binexp, word_vars, scan_vars>>
    /\ LET p == ptr + 1
           e == IF p = end THEN datastream_fetch(end) ELSE end
       IN  /\ end' = e
           /\ asserted' = asserted
           /\ IF p = end /\ failed
              THEN /\ pc' = "failed"
                   /\ ptr' = p
                   /\ UNCHANGED <<status_vars, exp_vars>>
              ELSE IF p = e
              THEN /\ fail_here(<<"Incomplete exponent in decimal floating-point number.">>)
                   /\ pc' = "failed"
                   /\ ptr' = p
                   /\ UNCHANGED exp_vars
              ELSE LET ch == input[p + 1]
                   IN  /\ negative_exponent' = (ch = Ord("-"))
                       /\ ptr' = IF ch \in {Ord("-"), Ord("+")} THEN p + 1 ELSE p
                       /\ absolute_exponent' = Zero64
                       /\ pc' = "exponent_digits"
                       /\ UNCHANGED status_vars

\* the exponent digit loop accumulating the digit without consuming it
ExponentDigits_peeking ==
    /\ pc = "exponent_digits"
    /\ starved' = (starved \/ starves(ptr))
    /\ UNCHANGED <<input, previous, factor, hist_vars, ret, bits, binexp, word_vars, scan_vars, status_vars,
                   negative_exponent>>
    /\ IF ptr # end
       THEN LET ch == current
                dv == digit_value_of(ch)
            IN  /\ UNCHANGED <<end, asserted>>
                /\ IF is_digit_value(dv)
                   THEN IF Less64(accumulator_limit(dv), absolute_exponent)
                        THEN /\ pc' = IF negative_exponent \/ significant_digits = 0
                                      THEN "return_possibly_signed_zero"
                                      ELSE "return_possibly_signed_infinity"
                             /\ UNCHANGED <<ptr, absolute_exponent>>
                        ELSE /\ absolute_exponent' = MulAdd10(absolute_exponent, LimbsNat(dv))
                             /\ ptr' = ptr
                             /\ pc' = "exponent_digits"
                   ELSE /\ pc' = "end_of_exponent"
                        /\ UNCHANGED <<ptr, absolute_exponent>>
       ELSE LET e == datastream_fetch(end)
            IN  /\ end' = e
                /\ asserted' = fetch_asserted
                /\ pc' = IF failed THEN "failed"
                         ELSE IF ptr # e THEN "exponent_digits" ELSE "end_of_exponent"
                /\ UNCHANGED <<ptr, absolute_exponent>>

\* lines 297-317: one iteration of the exponent digit loop
ExponentDigits ==
    /\ pc = "exponent_digits"
    /\ starved' = (starved \/ starves(ptr))
    /\ UNCHANGED <<input, previous, factor, hist_vars, ret, bits, binexp, word_vars, scan_vars, status_vars,
                   negative_exponent>>
    /\ IF ptr # end
       THEN LET ch == current
                dv == digit_value_of(ch)
            IN  /\ UNCHANGED <<end, asserted>>
                /\ IF is_digit_value(dv)
                   THEN IF Less64(accumulator_limit(dv), absolute_exponent)
                        THEN /\ pc' = IF negative_exponent \/ significant_digits = 0
                                      THEN "return_possibly_signed_zero"
                                      ELSE "return_possibly_signed_infinity"
                             /\ UNCHANGED <<ptr, absolute_exponent>>
                        ELSE /\ absolute_exponent' = MulAdd10(absolute_exponent, LimbsNat(dv))
                             /\ ptr' = ptr + 1
                             /\ pc' = "exponent_digits"
                   ELSE /\ pc' = "end_of_exponent"
                        /\ UNCHANGED <<ptr, absolute_exponent>>
       ELSE LET e == datastream_fetch(end)
            IN  /\ end' = e
                /\ asserted' = fetch_asserted
                /\ pc' = IF failed THEN "failed"
                         ELSE IF ptr # e THEN "exponent_digits" ELSE "end_of_exponent"
                /\ UNCHANGED <<ptr, absolute_exponent>>

\* merge_exponent with the whole exponent added to decimal_exponent after the part
\* taken from fractional_digits (a double shift)
merge_exponent_double_shift(neg_exp, abs_exp, fractional, decimal) ==
    IF neg_exp /\ abs_exp # Zero64
    THEN LET ge == ~Less64(decimal, abs_exp)
             de == IF ge THEN Sub64(decimal, abs_exp) ELSE Zero64
             ae == IF ge THEN Zero64 ELSE Sub64(abs_exp, decimal)
             f0 == IF Negative64(fractional) THEN Zero64 ELSE fractional
             fd == Add64(f0, ae)
         IN  [next |-> IF Negative64(fd) \/ Less64(fd, ae)
                       THEN "return_possibly_signed_zero" ELSE "end_of_number",
              absolute_exponent |-> ae, fractional_digits |-> fd, decimal_exponent |-> de]
    ELSE LET pos == ~Negative64(fractional) /\ fractional # Zero64
             ge == ~Less64(fractional, abs_exp)
             fd == IF ~pos THEN fractional
                   ELSE IF ge THEN Sub64(fractional, abs_exp) ELSE Zero64
             de == Add64(decimal, abs_exp)
         IN  [next |-> IF Less64(de, abs_exp)
                       THEN "return_possibly_signed_infinity" ELSE "end_of_number",
              absolute_exponent |-> abs_exp, fractional_digits |-> fd, decimal_exponent |-> de]

\* merge_exponent without the overflow checks of lines 338 and 353
merge_exponent_unchecked(neg_exp, abs_exp, fractional, decimal) ==
    IF neg_exp /\ abs_exp # Zero64
    THEN LET ge == ~Less64(decimal, abs_exp)
             de == IF ge THEN Sub64(decimal, abs_exp) ELSE Zero64
             ae == IF ge THEN Zero64 ELSE Sub64(abs_exp, decimal)
             f0 == IF Negative64(fractional) THEN Zero64 ELSE fractional
         IN  [next |-> "end_of_number",
              absolute_exponent |-> ae, fractional_digits |-> Add64(f0, ae),
              decimal_exponent |-> de]
    ELSE LET pos == ~Negative64(fractional) /\ fractional # Zero64
             ge == ~Less64(fractional, abs_exp)
             fd == IF ~pos THEN fractional
                   ELSE IF ge THEN Sub64(fractional, abs_exp) ELSE Zero64
             ae == IF ~pos THEN abs_exp
                   ELSE IF ge THEN Zero64 ELSE Sub64(abs_exp, fractional)
         IN  [next |-> "end_of_number",
              absolute_exponent |-> ae, fractional_digits |-> fd,
              decimal_exponent |-> Add64(decimal, ae)]

\* merge_exponent adding the exponent to its own counter without cancelling it
\* against the other one first
merge_exponent_separate(neg_exp, abs_exp, fractional, decimal) ==
    IF neg_exp /\ abs_exp # Zero64
    THEN LET f0 == IF Negative64(fractional) THEN Zero64 ELSE fractional
             fd == Add64(f0, abs_exp)
         IN  [next |-> IF Negative64(fd) \/ Less64(fd, abs_exp)
                       THEN "return_possibly_signed_zero" ELSE "end_of_number",
              absolute_exponent |-> abs_exp, fractional_digits |-> fd,
              decimal_exponent |-> decimal]
    ELSE LET de == Add64(decimal, abs_exp)
         IN  [next |-> IF Less64(de, abs_exp)
                       THEN "return_possibly_signed_infinity" ELSE "end_of_number",
              absolute_exponent |-> abs_exp, fractional_digits |-> fractional,
              decimal_exponent |-> de]

\* lines 326-356: fold the explicit exponent into fractional_digits / decimal_exponent
merge_exponent(neg_exp, abs_exp, fractional, decimal) ==
    IF neg_exp /\ abs_exp # Zero64
    THEN LET ge == ~Less64(decimal, abs_exp)
             de == IF ge THEN Sub64(decimal, abs_exp) ELSE Zero64
             ae == IF ge THEN Zero64 ELSE Sub64(abs_exp, decimal)
             f0 == IF Negative64(fractional) THEN Zero64 ELSE fractional
             fd == Add64(f0, ae)
         IN  [next |-> IF Negative64(fd) \/ Less64(fd, ae)
                       THEN "return_possibly_signed_zero" ELSE "end_of_number",
              absolute_exponent |-> ae, fractional_digits |-> fd, decimal_exponent |-> de]
    ELSE LET pos == ~Negative64(fractional) /\ fractional # Zero64
             ge == ~Less64(fractional, abs_exp)
             fd == IF ~pos THEN fractional
                   ELSE IF ge THEN Sub64(fractional, abs_exp) ELSE Zero64
             ae == IF ~pos THEN abs_exp
                   ELSE IF ge THEN Zero64 ELSE Sub64(abs_exp, fractional)
             de == Add64(decimal, ae)
         IN  [next |-> IF Less64(de, ae)
                       THEN "return_possibly_signed_infinity" ELSE "end_of_number",
              absolute_exponent |-> ae, fractional_digits |-> fd, decimal_exponent |-> de]

EndOfExponent ==
    /\ pc = "end_of_exponent"
    /\ LET m == merge_exponent(negative_exponent, absolute_exponent,
                               fractional_digits, decimal_exponent)
       IN  /\ absolute_exponent' = m.absolute_exponent
           /\ fractional_digits' = m.fractional_digits
           /\ decimal_exponent' = m.decimal_exponent
           /\ pc' = m.next
    /\ UNCHANGED <<input, previous, starved, factor, hist_vars, ptr, end, ret, bits, binexp, word_vars, status_vars,
                   negative, mantissa, digits, significant_digits, negative_exponent,
                   asserted>>

\* lines 359-360 and 372-373: call datastream_consume_word
ParseInfinity ==
    /\ pc = "parse_infinity"
    /\ word' = Bytes(<<"i", "n", "f">>)
    /\ keyword' = "inf"
    /\ pc' = "consume_word"
    /\ UNCHANGED <<input, previous, starved, factor, hist_vars, ptr, end, ret, bits, binexp, status_vars, scan_vars,
                   exp_vars, asserted>>

ParseNan ==
    /\ pc = "parse_nan"
    /\ word' = Bytes(<<"n", "a", "n">>)
    /\ keyword' = "nan"
    /\ pc' = "consume_word"
    /\ UNCHANGED <<input, previous, starved, factor, hist_vars, ptr, end, ret, bits, binexp, status_vars, scan_vars,
                   exp_vars, asserted>>

\* datastream_consume_word without the check of lines 165-173 that the window holds
\* a byte (a read past the end of the input gives 0)
ConsumeWord_unchecked ==
    /\ pc = "consume_word"
    /\ UNCHANGED <<input, previous, starved, factor, hist_vars, ret, bits, binexp, scan_vars, exp_vars, keyword>>
    /\ IF word = << >>
       THEN /\ pc' = "after_word"
            /\ UNCHANGED <<ptr, end, status_vars, word, asserted>>
       ELSE LET ch == IF ptr < Len(input) THEN current ELSE 0
            IN  /\ IF ch # Head(word)
                   THEN fail_here(<<"Unexpected character (%s0x%02x); expected '%c'.",
                                    ch, Head(word)>>)
                   ELSE UNCHANGED status_vars
                /\ ptr' = ptr + 1
                /\ word' = Tail(word)
                /\ pc' = "consume_word"
                /\ UNCHANGED <<end, asserted>>

\* lines 165-184: one iteration of the loop of datastream_consume_word
ConsumeWord ==
    /\ pc = "consume_word"
    /\ starved' = (starved \/ (word # << >> /\ starves(ptr)))
    /\ UNCHANGED <<input, previous, factor, hist_vars, ret, bits, binexp, scan_vars, exp_vars, keyword>>
    /\ IF word = << >>
       THEN /\ pc' = "after_word"
            /\ UNCHANGED <<ptr, end, status_vars, word, asserted>>
       ELSE LET e == IF ptr = end THEN datastream_fetch(end) ELSE end
            IN  /\ end' = e
                /\ asserted' = asserted
                /\ IF ptr = end /\ failed
                   THEN /\ pc' = "after_word"
                        /\ UNCHANGED <<ptr, status_vars, word>>
                   ELSE IF ptr = e
                   THEN /\ fail_here(<<"Unexpected end of stream; expected character '%c'.", Head(word)>>)
                        /\ pc' = "after_word"
                        /\ UNCHANGED <<ptr, word>>
                   ELSE LET ch == current
                        IN  /\ IF ch # Head(word)
                               THEN fail_here(<<"Unexpected character (%s0x%02x); expected '%c'.",
                                                ch, Head(word)>>)
                               ELSE UNCHANGED status_vars
                            /\ ptr' = ptr + 1
                            /\ word' = Tail(word)
                            /\ pc' = "consume_word"

\* lines 361-362 and 374-381: back in parse_double
AfterWord ==
    /\ pc = "after_word"
    /\ IF failed
       THEN /\ pc' = "failed"
            /\ UNCHANGED <<ret, bits>>
       ELSE IF keyword = "inf"
       THEN /\ pc' = "return_possibly_signed_infinity"
            /\ UNCHANGED <<ret, bits>>
       ELSE /\ bits' = signed_nan(negative)
            /\ ret' = "nan"
            /\ pc' = "returned"
    /\ UNCHANGED <<input, previous, starved, factor, hist_vars, ptr, end, binexp, status_vars, scan_vars, exp_vars,
                   word_vars, asserted>>

\* lines 363-369
ReturnInfinity ==
    /\ pc = "return_possibly_signed_infinity"
    /\ bits' = signed_infinity(negative)
    /\ ret' = "infinity"
    /\ pc' = "returned"
    /\ UNCHANGED <<input, previous, starved, factor, hist_vars, ptr, end, binexp, status_vars, scan_vars, exp_vars,
                   word_vars, asserted>>

\* lines 428-433
ReturnZero ==
    /\ pc = "return_possibly_signed_zero"
    /\ bits' = signed_zero(negative)
    /\ ret' = "zero"
    /\ pc' = "returned"
    /\ UNCHANGED <<input, previous, starved, factor, hist_vars, ptr, end, binexp, status_vars, scan_vars, exp_vars,
                   word_vars, asserted>>

\* EndOfNumber without the check of lines 422-425 (digits == 0)
EndOfNumber_unchecked ==
    /\ pc = "end_of_number"
    /\ pc' = IF significant_digits = 0 THEN "return_possibly_signed_zero" ELSE "normalize"
    /\ UNCHANGED <<input, previous, starved, factor, hist_vars, ptr, end, ret, bits, binexp, scan_vars, exp_vars,
                   word_vars, status_vars, asserted>>

\* EndOfNumber without the check of line 427 (significant_digits == 0)
EndOfNumber_normalize_zero ==
    /\ pc = "end_of_number"
    /\ asserted' = IF (Negative64(fractional_digits) \/ fractional_digits = Zero64)
                      \/ decimal_exponent = Zero64
                   THEN asserted
                   ELSE asserted \cup {"(fractional_digits <= 0) || (decimal_exponent == 0)"}
    /\ IF digits = 0
       THEN /\ fail_here(<<"Numeric literal without digits.">>)
            /\ pc' = "failed"
       ELSE /\ pc' = "normalize"
            /\ UNCHANGED status_vars
    /\ UNCHANGED <<input, previous, starved, factor, hist_vars, ptr, end, ret, bits, binexp, scan_vars, exp_vars,
                   word_vars>>

\* lines 417-434
EndOfNumber ==
    /\ pc = "end_of_number"
    /\ asserted' = IF (Negative64(fractional_digits) \/ fractional_digits = Zero64)
                      \/ decimal_exponent = Zero64
                   THEN asserted
                   ELSE asserted \cup {"(fractional_digits <= 0) || (decimal_exponent == 0)"}
    /\ IF digits = 0
       THEN /\ fail_here(<<"Numeric literal without digits.">>)
            /\ pc' = "failed"
       ELSE /\ pc' = IF significant_digits = 0
                     THEN "return_possibly_signed_zero" ELSE "normalize"
            /\ UNCHANGED status_vars
    /\ UNCHANGED <<input, previous, starved, factor, hist_vars, ptr, end, ret, bits, binexp, scan_vars, exp_vars,
                   word_vars>>

\* lines 439-494: normalize the mantissa and apply the powers of ten
Normalize ==
    /\ pc = "normalize"
    /\ LET r == apply_powers(normalize(mantissa), fractional_digits, decimal_exponent)
       IN  /\ mantissa' = r.x.mantissa
           /\ binexp' = r.x.binexp
           /\ pc' = CASE r.ret = "zero" -> "return_possibly_signed_zero"
                      [] r.ret = "infinity" -> "return_possibly_signed_infinity"
                      [] OTHER -> "round"
    /\ UNCHANGED <<input, previous, starved, factor, hist_vars, ptr, end, ret, bits, status_vars, negative, digits,
                   significant_digits, fractional_digits, decimal_exponent, exp_vars,
                   word_vars, asserted>>

\* lines 496-538: subnormal range, rounding, overflow, assembly
Round ==
    /\ pc = "round"
    /\ LET r == finish([mantissa |-> mantissa, binexp |-> binexp], negative)
       IN  /\ mantissa' = r.x.mantissa
           /\ binexp' = r.x.binexp
           /\ IF r.ret = "value"
              THEN /\ bits' = r.bits
                   /\ ret' = "value"
                   /\ pc' = "returned"
                   /\ asserted' = asserted
                                  \cup (IF r.x.binexp <= 1023 THEN {} ELSE {"binexp <= 1023"})
                                  \cup (IF r.x.binexp >= -1023 THEN {} ELSE {"binexp >= -1023"})
              ELSE /\ pc' = IF r.ret = "zero" THEN "return_possibly_signed_zero"
                            ELSE "return_possibly_signed_infinity"
                   /\ UNCHANGED <<ret, bits, asserted>>
    /\ UNCHANGED <<input, previous, starved, factor, hist_vars, ptr, end, status_vars, negative, digits,
                   significant_digits, fractional_digits, decimal_exponent, exp_vars,
                   word_vars>>

\* lines 539-541
Failed ==
    /\ pc = "failed"
    /\ asserted' = IF failed THEN asserted ELSE asserted \cup {"st->failed"}
    /\ bits' = Zero64
    /\ ret' = "failed"
    /\ pc' = "returned"
    /\ UNCHANGED <<input, previous, starved, factor, hist_vars, ptr, end, binexp, status_vars, scan_vars, exp_vars,
                   word_vars>>

Next ==
    \/ Start
    \/ MainLoop
    \/ SkipDigits
    \/ ParseExponent
    \/ ExponentDigits
    \/ EndOfExponent
    \/ ParseInfinity
    \/ ParseNan
    \/ ConsumeWord
    \/ AfterWord
    \/ ReturnInfinity
    \/ ReturnZero
    \/ EndOfNumber
    \/ Normalize
    \/ Round
    \/ Failed

(***************************************************************************)
(* The round-trip test of main (lines 600-693): snprintf(buffer, "%.*f",   *)
(* test_precision, original).  The C library prints the exact binary value *)
(* M * 2^E of the double in fixed notation, rounded to nearest (ties to    *)
(* even) at the last printed digit.                                        *)
(***************************************************************************)

test_precision == 340

\* the low k bits of a, as n limbs (a mod 2^k)
LowBits(a, k, n) ==
    Tuple([i \in 1..n |->
              IF i > Len(a) \/ 8 * (i - 1) >= k THEN 0
              ELSE IF 8 * i <= k THEN a[i]
              ELSE a[i] % Pow2(k - 8 * (i - 1))], n)

\* bit j (from 0) of a
BitOf(a, j) ==
    IF j \div 8 + 1 > Len(a) THEN 0 ELSE (a[j \div 8 + 1] \div Pow2(j % 8)) % 2

\* k * a + c for the limbs lo..hi of a (k <= 10000), by quarters:
\* <<limbs lo..hi of the product, carry out>>
RECURSIVE MulSmallRange(_, _, _, _, _)
MulSmallRange(a, k, lo, hi, c) ==
    IF lo = hi
    THEN LET t == k * a[lo] + c IN <<<<t % 256>>, t \div 256>>
    ELSE IF hi - lo < 3
    THEN LET mid == (lo + hi) \div 2
             low == MulSmallRange(a, k, lo, mid, c)
             high == MulSmallRange(a, k, mid + 1, hi, low[2])
         IN  <<low[1] \o high[1], high[2]>>
    ELSE LET q == (hi - lo + 1) \div 4
             p1 == MulSmallRange(a, k, lo, lo + q - 1, c)
             p2 == MulSmallRange(a, k, lo + q, lo + 2 * q - 1, p1[2])
             p3 == MulSmallRange(a, k, lo + 2 * q, lo + 3 * q - 1, p2[2])
             p4 == MulSmallRange(a, k, lo + 3 * q, hi, p3[2])
         IN  <<p1[1] \o p2[1] \o p3[1] \o p4[1], p4[2]>>

\* k * a as n limbs (n >= 1; the product fits)
MulSmall(a, k, n) == MulSmallRange(Limbs(a, n), k, 1, n, 0)[1]

\* division of the limbs hi down to lo of a by k (k <= 10000) with the
\* remainder r coming in from above, by quarters:
\* <<quotient limbs for hi down to lo, remainder>>
RECURSIVE DivSmallRange(_, _, _, _, _)
DivSmallRange(a, k, lo, hi, r) ==
    IF lo = hi
    THEN LET t == 256 * r + a[lo] IN <<<<t \div k>>, t % k>>
    ELSE IF hi - lo < 3
    THEN LET mid == (lo + hi) \div 2
             high == DivSmallRange(a, k, mid + 1, hi, r)
             low == DivSmallRange(a, k, lo, mid, high[2])
         IN  <<high[1] \o low[1], low[2]>>
    ELSE LET q == (hi - lo + 1) \div 4
             p4 == DivSmallRange(a, k, lo + 3 * q, hi, r)
             p3 == DivSmallRange(a, k, lo + 2 * q, lo + 3 * q - 1, p4[2])
             p2 == DivSmallRange(a, k, lo + q, lo + 2 * q - 1, p3[2])
             p1 == DivSmallRange(a, k, lo, lo + q - 1, p2[2])
         IN  <<p4[1] \o p3[1] \o p2[1] \o p1[1], p1[2]>>

\* <<floor(a / k), a mod k>> for a non-zero a
DivSmall(a, k) ==
    LET d == DivSmallRange(a, k, 1, Len(a), 0)
    IN  <<Tuple([i \in 1..Len(a) |-> d[1][Len(a) + 1 - i]], Len(a)), d[2]>>

\* the n decimal digits (as bytes) of a small natural v, most significant first
RECURSIVE DecimalDigits(_, _)
DecimalDigits(v, n) ==
    IF n = 0 THEN << >>
    ELSE Append(DecimalDigits(v \div 10, n - 1), Ord("0") + (v % 10))

\* the low 4c decimal digits of the natural a and what is above them, by
\* halves: <<floor(a / 10^4c), digits of a mod 10^4c>>
RECURSIVE IntegerChunks(_, _)
IntegerChunks(a, c) ==
    IF c = 1
    THEN IF StripLimbs(a) = << >> THEN <<<< >>, DecimalDigits(0, 4)>>
         ELSE LET d == DivSmall(StripLimbs(a), 10000)
              IN  <<StripLimbs(d[1]), DecimalDigits(d[2], 4)>>
    ELSE LET low == IntegerChunks(a, c \div 2)
             high == IntegerChunks(low[1], c - c \div 2)
         IN  IF low[1] = << >>
             THEN <<<< >>, [i \in 1..4 * (c - c \div 2) |-> Ord("0")] \o low[2]>>
             ELSE <<high[1], high[2] \o low[2]>>

\* the position of the first byte of s that is not "0" (Len(s) + 1 if none)
FirstNonZero(s) ==
    LET nz == {i \in 1..Len(s) : s[i] # Ord("0")}
    IN  IF nz = {} THEN Len(s) + 1 ELSE CHOOSE i \in nz : \A j \in nz : i <= j

\* the decimal digits of the natural a, without leading zeros ("0" for zero)
IntegerDigits(a) ==
    LET all == IntegerChunks(a, (3 * Len(a)) \div 4 + 1)[2]
        first == FirstNonZero(all)
    IN  IF first > Len(all) THEN <<Ord("0")>> ELSE SubSeq(all, first, Len(all))

\* the first 4c digits of the fraction r / 2^k (r < 2^k) and what is left of
\* r, by quarters: <<digits, remainder>>
RECURSIVE FractionChunks(_, _, _)
FractionChunks(r, k, c) ==
    IF c = 1
    THEN LET w == k \div 8 + 3
             p == MulSmall(r, 10000, w)
             d == ShrLimbs(p, k, 2)
         IN  <<DecimalDigits(d[1] + 256 * d[2], 4), LowBits(p, k, w)>>
    ELSE IF c < 4
    THEN LET first == FractionChunks(r, k, c \div 2)
             rest == FractionChunks(first[2], k, c - c \div 2)
         IN  <<first[1] \o rest[1], rest[2]>>
    ELSE LET q == c \div 4
             p1 == FractionChunks(r, k, q)
             p2 == FractionChunks(p1[2], k, q)
             p3 == FractionChunks(p2[2], k, q)
             p4 == FractionChunks(p3[2], k, c - 3 * q)
         IN  <<p1[1] \o p2[1] \o p3[1] \o p4[1], p4[2]>>

\* a digit string plus one in its last place: <<digits, carry out>>
IncrementDigits(s) ==
    LET low == {i \in 1..Len(s) : s[i] # Ord("9")}
    IN  IF low = {} THEN <<[i \in 1..Len(s) |-> Ord("0")], 1>>
        ELSE LET j == CHOOSE i \in low : \A h \in low : h <= i
             IN  <<Tuple([i \in 1..Len(s) |->
                             IF i < j THEN s[i]
                             ELSE IF i = j THEN s[i] + 1 ELSE Ord("0")], Len(s)), 0>>

\* m / 2^k printed with n digits after the point (n a multiple of 4),
\* rounded to nearest, ties to even
format_fixed(m, k, n) ==
    LET int == ShrLimbs(m, k, Len(m))
        fr == FractionChunks(LowBits(m, k, Len(m)), k, n \div 4)
        rest == fr[2]
        half == k > 0 /\ BitOf(rest, k - 1) = 1
        above == k > 1 /\ StripLimbs(LowBits(rest, k - 1, Len(rest))) # << >>
        up == half /\ (above \/ (fr[1][n] - Ord("0")) % 2 = 1)
        fdig == IF up THEN IncrementDigits(fr[1]) ELSE <<fr[1], 0>>
        idig == IF fdig[2] = 1
                THEN LET i == IncrementDigits(IntegerDigits(int))
                     IN  IF i[2] = 1 THEN <<Ord("1")>> \o i[1] ELSE i[1]
                ELSE IntegerDigits(int)
    IN  idig \o <<Ord(".")>> \o fdig[1]

\* snprintf(buffer, sizeof(buffer), "%.*f", test_precision, original)
snprintf_f(sign, expfield, fraction) ==
    LET s == IF sign = 1 THEN <<Ord("-")>> ELSE << >>
        frac == Limbs(fraction, 7)
    IN  IF expfield = 2047
        THEN s \o (IF StripLimbs(frac) = << >> THEN Bytes(<<"i", "n", "f">>)
                   ELSE Bytes(<<"n", "a", "n">>))
        ELSE LET m == IF expfield = 0 THEN frac
                      ELSE SubSeq(AddLimbs(frac, ShlLimbs(<<1>>, 52, 7), 7), 1, 7)
                 e == IF expfield = 0 THEN -1074 ELSE expfield - 1075
             IN  s \o (IF e >= 0
                       THEN format_fixed(ShlLimbs(m, e, e \div 8 + 8), 0, test_precision)
                       ELSE format_fixed(m, -e, test_precision))

(***************************************************************************)
(* The calls checked: parse_double on a stream that holds the whole input. *)
(***************************************************************************)

MaxLen == 4
MaxWord == 3

\* every text of at most n bytes over an alphabet
Texts(alphabet, n) == UNION {{Tuple(f, k) : f \in [1..k -> alphabet]} : k \in 0..n}

\* n times the character c
Repeat(c, n) == Tuple([i \in 1..n |-> Ord(c)], n)

Alphabet == {Ord("-"), Ord("+"), Ord("."), Ord("0"), Ord("1"), Ord("e"), Ord("x")}
ShortInputs == Texts(Alphabet, MaxLen)

WordAlphabet == {Ord("i"), Ord("n"), Ord("f"), Ord("a"), Ord("x")}
WordPrefixes == {<< >>, Bytes(<<"-">>), Bytes(<<"+">>), Bytes(<<".">>), Bytes(<<"1">>)}
WordInputs == {p \o w : p \in WordPrefixes, w \in Texts(WordAlphabet, MaxWord)}

Mantissas ==
    {Bytes(<<"0">>), Bytes(<<"0", "0">>), Bytes(<<"0", ".", "0">>), Bytes(<<".", "0">>),
     Bytes(<<"1">>), Bytes(<<"9">>), Bytes(<<".", "5">>), Bytes(<<"0", ".", "0", "0", "1">>),
     Bytes(<<"1", "2", ".", "5">>), Bytes(<<"1", "2", "3", "4", "5", "6", "7", "8", "9", "0", "1", "2", "3", "4", "5", "6", "7", "8", "9">>),
     Bytes(<<"1", "2", "3", "4", "5", "6", "7", "8", "9", "0", "1", "2", "3", "4", "5", "6", "7", "8", "9", "0">>),
     Bytes(<<"0", ".", "0", "0", "0", "0", "0", "0", "0", "0", "0", "0", "0", "0", "0", "0", "0", "0", "0", "0", "1">>)}

Exponents ==
    {Bytes(<<"0">>), Bytes(<<"1">>), Bytes(<<"5", "1", "1">>), Bytes(<<"5", "1", "2">>),
     Bytes(<<"5", "1", "3">>), Bytes(<<"0", "5", "1", "2">>), Bytes(<<"9", "9", "9">>),
     Bytes(<<"1", "0", "0", "0">>), Bytes(<<"1", "8", "4", "4", "6", "7", "4", "4", "0", "7", "3", "7", "0", "9", "5", "5", "1", "6", "1", "5">>),
     Bytes(<<"1", "8", "4", "4", "6", "7", "4", "4", "0", "7", "3", "7", "0", "9", "5", "5", "1", "6", "1", "6">>)}

\* [sign] mantissa marker [sign] exponent
ExponentInputs ==
    {s \o m \o e \o es \o x :
        s \in {<< >>, Bytes(<<"-">>)}, m \in Mantissas, e \in {Bytes(<<"e">>), Bytes(<<"E">>)},
        es \in {<< >>, Bytes(<<"+">>), Bytes(<<"-">>)}, x \in Exponents}

\* mantissas too long for the accumulator, with exponents beyond +-512
LongMantissaInputs ==
    {Bytes(<<"0", ".">>) \o Repeat("0", 210) \o Bytes(<<"1", "e", "5", "1", "2">>),
     Bytes(<<"1">>) \o Repeat("0", 300) \o Bytes(<<"e", "-", "5", "1", "2">>),
     Bytes(<<"-", "1">>) \o Repeat("0", 400),
     Bytes(<<"0", ".">>) \o Repeat("0", 400) \o Bytes(<<"1">>)}

Literals ==
    {Bytes(<<"2", "6", "4", "1", "3", "2", "2", "2", "0", "4", "7", "6", "8", "5", "0", "7", "1", "7", "9", "8", "2", "5", "7", "8", "4">>),
     Bytes(<<"9", "0", "0", "7", "1", "9", "9", "2", "5", "4", "7", "4", "0", "9", "9", "5">>),
     Bytes(<<"9", "0", "0", "7", "1", "9", "9", "2", "5", "4", "7", "4", "0", "9", "9", "3">>),
     Bytes(<<"1", "2", "3", "4", "5", "6", "7", "8", "9", "0", "1", "2", "3", "4", "5", "6", "7", "8", "9", "0", "1", "2", "3", "4", "5">>),
     Bytes(<<"1", "8", "4", "4", "6", "7", "4", "4", "0", "7", "3", "7", "0", "9", "5", "5", "1", "6", "1", "5">>),
     Bytes(<<"1", "8", "4", "4", "6", "7", "4", "4", "0", "7", "3", "7", "0", "9", "5", "5", "1", "6", "1", "6">>),
     Bytes(<<"1", "2", "3", "a", "b", "c">>), Bytes(<<"1", ".", "2", ".", "3">>),
     Bytes(<<"1", "e", "+">>), Bytes(<<"1", "E">>), Bytes(<<"1", "e", "-", "x">>),
     Bytes(<<"1", "e", "x">>), Bytes(<<"1", "E", "5">>), Bytes(<<"-", "1", ".", "5", "e", "-", "3">>),
     Bytes(<<"1", "e", "1", "0">>), Bytes(<<"1", ".", "5">>), Bytes(<<"1", "e", "3", "0", "9">>),
     Bytes(<<"-", "1", "e", "3", "0", "9">>), Bytes(<<"1", "e", "3", "0", "8">>),
     Bytes(<<"1", ".", "7", "9", "7", "6", "9", "3", "1", "3", "4", "8", "6", "2", "3", "1", "5", "7", "e", "3", "0", "8">>),
     Bytes(<<"1", ".", "7", "9", "7", "6", "9", "3", "1", "3", "4", "8", "6", "2", "3", "1", "5", "9", "e", "3", "0", "8">>),
     Bytes(<<"4", ".", "9", "e", "-", "3", "2", "4">>), Bytes(<<"2", "e", "-", "3", "2", "4">>),
     Bytes(<<"1", "e", "-", "3", "3", "0">>), Bytes(<<"-", "1", "e", "-", "4", "0", "0">>),
     Bytes(<<"1", "e", "4", "0", "0">>), Bytes(<<"1", "e", "9", "9", "9", "9", "9", "9", "9", "9", "9", "9", "9", "9", "9", "9", "9", "9", "9", "9", "9", "9">>),
     Bytes(<<"-", "1", "e", "-", "9", "9", "9", "9", "9", "9", "9", "9", "9", "9", "9", "9", "9", "9", "9", "9", "9", "9", "9", "9">>),
     Bytes(<<"0", "e", "9", "9", "9", "9", "9", "9", "9", "9", "9", "9", "9", "9", "9", "9", "9", "9", "9", "9", "9", "9">>),
     Bytes(<<"1", "e", "9", "9", "9", "9", "9", "9", "9", "9", "9", "9", "9", "9", "9", "9", "9", "9", "9", "9", "9", "9", "x">>),
     Bytes(<<"i", "n", "f">>), Bytes(<<"-", "i", "n", "f">>), Bytes(<<"+", "i", "n", "f">>),
     Bytes(<<"n", "a", "n">>), Bytes(<<"-", "n", "a", "n">>), Bytes(<<"i", "n", "f", "x">>),
     Bytes(<<"I", "N", "F">>), Bytes(<<" ", "1">>), Bytes(<<"1", " ">>),
     Bytes(<<"i", "x", "y">>), Bytes(<<"n", "a", "x">>), Bytes(<<"i", "n">>),
     Bytes(<<".", "i", "n", "f">>), Bytes(<<"1", "i", "n", "f">>), Bytes(<<"-", ".", "5", "e", "+", "1", "x">>)}

\* literals at the boundaries of the value range and of the grammar
BoundaryLiterals ==
    {Bytes(<<"2", "e", "3", "0", "8">>),
     Bytes(<<"1", ".", "5", "e", "-", "3">>),
     Bytes(<<"1", ".", "7", "9", "7", "6", "9", "3", "1", "3", "4", "8", "6", "2", "3", "1", "5", "9", "e", "3", "0", "8">>),
     Bytes(<<"-", "2", "e", "3", "0", "8">>),
     Bytes(<<"0", ".", "5", "e", "-", "3", "2", "3">>),
     Bytes(<<"1", "7", "9", "7", "6", "9", "3", "1", "3", "4", "8", "6", "2", "3", "1", "5", "8", "e", "2", "9", "2">>)}

\* literals whose digits do not all fit the mantissa, and exponents folded into the two counters
MergeInputs ==
    {Bytes(<<"1", "2", "3", "4", "5", "6", "7", "8", "9", "0", "1", "2", "3", "4", "5", "6", "7", "8", "9", "0", "1", "e", "1", "8", "4", "4", "6", "7", "4", "4", "0", "7", "3", "7", "0", "9", "5", "5", "1", "6", "1", "5">>),
     Bytes(<<"1", "e", "-", "9", "2", "2", "3", "3", "7", "2", "0", "3", "6", "8", "5", "4", "7", "7", "5", "8", "0", "8">>),
     Bytes(<<"1", "e", "-", "9", "2", "2", "3", "3", "7", "2", "0", "3", "6", "8", "5", "4", "7", "7", "5", "8", "0", "7">>),
     Bytes(<<"0", ".", "1", "e", "-", "9", "2", "2", "3", "3", "7", "2", "0", "3", "6", "8", "5", "4", "7", "7", "5", "8", "0", "7">>),
     Bytes(<<"0", ".", "1", "e", "-", "1", "8", "4", "4", "6", "7", "4", "4", "0", "7", "3", "7", "0", "9", "5", "5", "1", "6", "1", "5">>),
     Bytes(<<"1", "2", ".", "5", "e", "9", "2", "2", "3", "3", "7", "2", "0", "3", "6", "8", "5", "4", "7", "7", "5", "8", "0", "8">>),
     Bytes(<<"1", "2", "3", "4", "5", "6", "7", "8", "9", "0", "1", "2", "3", "4", "5", "6", "7", "8", "9", "0", "1", "2", "e", "-", "3">>),
     Bytes(<<"1", "2", "3", "4", "5", "6", "7", "8", "9", "0", "1", "2", "3", "4", "5", "6", "7", "8", "9", "0", "1", "2", "3", "e", "-", "2">>),
     Bytes(<<"1", "2", "3", "4", "5", "6", "7", "8", "9", "0", "1", "2", "3", "4", "5", "6", "7", "8", "9", "0", "1", "2", "3", ".", "5">>),
     Bytes(<<"-", "1", "2", "3", "4", "5", "6", "7", "8", "9", "0", "1", "2", "3", "4", "5", "6", "7", "8", "9", "0", "1", "2", "3", ".", "5", "e", "+", "1">>),
     Bytes(<<"1", ".", "2", "3", "4", "5", "6", "7", "8", "9", "0", "1", "2", "3", "4", "5", "6", "7", "8", "9", "0", "1", "2", "3", "4", "e", "5">>),
     Bytes(<<"1", "8", "4", "4", "6", "7", "4", "4", "0", "7", "3", "7", "0", "9", "5", "5", "1", "6", "1", "6", ".", "5">>),
     Bytes(<<"1", "8", "4", "4", "6", "7", "4", "4", "0", "7", "3", "7", "0", "9", "5", "5", "1", "6", "1", "5", ".", "2", "5", "e", "1">>),
     Bytes(<<"0", ".", "0", "0", "0", "e", "5">>),
     Bytes(<<"1", ".", "5", "e", "1">>),
     Bytes(<<"1", ".", "2", "5", "e", "1">>),
     Bytes(<<"1", ".", "5", "e", "3">>),
     Bytes(<<"1", "2", ".", "5", "e", "-", "1">>),
     Bytes(<<"0", "0", "0", "1", "2", ".", "5", "0">>),
     Bytes(<<"1", "8", "4", "4", "6", "7", "4", "4", "0", "7", "3", "7", "0", "9", "5", "5", "1", "6", "1", "6", "0", "0", "e", "-", "2", "5">>),
     Bytes(<<"0", ".", "0", "0", "0", "0", "0", "0", "0", "0", "0", "0", "0", "0", "0", "0", "0", "0", "0", "0", "1", "8", "4", "4", "6", "7", "4", "4", "0", "7", "3", "7", "0", "9", "5", "5", "1", "6", "1", "6", "e", "2", "5">>),
     Bytes(<<"1", "e", "5", "1", "1">>),
     Bytes(<<"1", "e", "-", "5", "1", "1">>),
     Bytes(<<"2", ".", "5", "e", "-", "5", "1", "1">>),
     Bytes(<<"1", "2", "3", "4", "5", "6", "7", "8", "9", "0", "1", "2", "3", "4", "5", "6", "7", "8", "9", "0", "1", "2", "3", "4", "5", "6", "7", "8", "9", "0", "e", "4", "8", "2">>),
     Bytes(<<"1", ".", "5", "e", "5", "1", "2">>),
     Bytes(<<"0", ".", "2", "5", "e", "5", "1", "3">>)}

\* literals around the smallest and the largest binary exponents of a double
RangeInputs ==
    {Bytes(<<"1", ".", "5", "e", "-", "3", "2", "7">>),
     Bytes(<<"1", "e", "-", "3", "2", "7">>),
     Bytes(<<"4", ".", "9", "4", "0", "6", "5", "6", "4", "5", "8", "4", "1", "2", "4", "6", "5", "4", "e", "-", "3", "2", "4">>),
     Bytes(<<"2", ".", "2", "2", "5", "0", "7", "3", "8", "5", "8", "5", "0", "7", "2", "0", "1", "4", "e", "-", "3", "0", "8">>),
     Bytes(<<"2", ".", "2", "2", "5", "0", "7", "3", "8", "5", "8", "5", "0", "7", "2", "0", "1", "1", "e", "-", "3", "0", "8">>),
     Bytes(<<"-", "2", ".", "2", "2", "5", "0", "7", "3", "8", "5", "8", "5", "0", "7", "2", "0", "1", "3", "e", "-", "3", "0", "8">>),
     Bytes(<<"2", ".", "4", "7", "0", "3", "2", "8", "2", "2", "9", "2", "0", "6", "2", "3", "2", "8", "e", "-", "3", "2", "4">>),
     Bytes(<<"2", ".", "5", "e", "-", "3", "2", "4">>),
     Bytes(<<"1", ".", "7", "9", "7", "6", "9", "3", "1", "3", "4", "8", "6", "2", "3", "1", "5", "7", "e", "3", "0", "8">>),
     Bytes(<<"3", "e", "-", "3", "2", "4">>),
     Bytes(<<"-", "1", "e", "-", "3", "2", "3">>),
     Bytes(<<"8", ".", "9", "8", "8", "4", "6", "5", "6", "7", "4", "3", "1", "1", "5", "7", "9", "5", "e", "3", "0", "7">>)}

Inputs ==
    ShortInputs \cup WordInputs \cup ExponentInputs \cup LongMantissaInputs \cup Literals
        \cup BoundaryLiterals \cup MergeInputs \cup RangeInputs

Init == \E in \in Inputs : InitCall(in, Len(in))

Spec == Init /\ [][Next]_vars

(***************************************************************************)
(* The round-trip test of main (lines 600-711): every double of the        *)
(* enumeration is printed with "%.340f" and parsed back.  The enumeration  *)
(* is cut down to the exponent fields at the ends and around the middle    *)
(* of the range, and to MaxPattern + 2 of the 16 leading and trailing bit  *)
(* patterns; the bits in between are all zero or all one.                  *)
(***************************************************************************)

n_fraction_leading_bits_enumerated == 4
n_fraction_trailing_bits_enumerated == 4

MaxPattern == 0

\* the values of signexp taken: both signs with the exponent fields kept
ExponentFields == {0, 1, 2, 512, 1022, 1023, 1024, 1075, 1076, 1536, 2046, 2047}
SignExps == {2048 * s + e : s \in 0..1, e \in ExponentFields}

LeadingPatterns == (0..MaxPattern) \cup {2 ^ n_fraction_leading_bits_enumerated - 1}
TrailingPatterns == (0..MaxPattern) \cup {2 ^ n_fraction_trailing_bits_enumerated - 1}

\* fraction_middle_bits for middle = 0 and middle = 1, reduced to the bits needed
fraction_middle_bits(middle) ==
    Shr64(IF middle = 0 THEN Zero64 ELSE MinusOne64,
          (64 - 52) + n_fraction_leading_bits_enumerated + n_fraction_trailing_bits_enumerated)

\* lines 617-619
test_fraction(leading, middle, trailing) ==
    Or64(Or64(Shl64(U64(leading), 52 - n_fraction_leading_bits_enumerated),
              Shl64(fraction_middle_bits(middle), n_fraction_trailing_bits_enumerated)),
         U64(trailing))

\* lines 621-627: original_bits and the text in buffer
test_case(signexp, fraction) ==
    [signexp |-> signexp,
     fraction |-> fraction,
     original_bits |-> Or64(Shl64(U64(signexp), 52), fraction),
     buffer |-> snprintf_f(signexp \div 2048, signexp % 2048, SubSeq(fraction, 1, 7))]

TestCases ==
    {test_case(se, test_fraction(l, m, tr)) :
        se \in SignExps, l \in LeadingPatterns, m \in 0..1, tr \in TrailingPatterns}

InitRoundTrip == \E c \in TestCases : InitCall(c.buffer, Len(c.buffer))

\* "%.340f" prints no exponent, and the test expects no failure: the steps of a
\* call on such a text
NextRoundTrip ==
    \/ Start
    \/ MainLoop
    \/ SkipDigits
    \/ ParseInfinity
    \/ ParseNan
    \/ ConsumeWord
    \/ AfterWord
    \/ ReturnInfinity
    \/ ReturnZero
    \/ EndOfNumber
    \/ Normalize
    \/ Round

SpecRoundTrip == InitRoundTrip /\ [][NextRoundTrip]_vars

(***************************************************************************)
(* The literal an input starts with, read off the bytes (positions from 1). *)
(***************************************************************************)

IsSign(b) == b \in {Ord("-"), Ord("+")}
IsMarker(b) == b \in {Ord("e"), Ord("E")}
IsDigit(b) == b >= Ord("0") /\ b <= Ord("9")

Least(S) == CHOOSE x \in S : \A y \in S : x <= y

\* the position after the optional sign
MantissaStart(s) == IF s # << >> /\ IsSign(s[1]) THEN 2 ELSE 1

\* the first position from i on that holds no digit (Len(s) + 1 if there is none)
DigitsEnd(s, i) == Least({j \in i..Len(s) : ~IsDigit(s[j])} \cup {Len(s) + 1})

\* the position after the mantissa: digits, at most one point, digits
MantissaEnd(s) ==
    LET a == DigitsEnd(s, MantissaStart(s))
    IN  IF a <= Len(s) /\ s[a] = Ord(".") THEN DigitsEnd(s, a + 1) ELSE a

\* the number of digits of the mantissa
MantissaDigits(s) ==
    Cardinality({j \in MantissaStart(s)..MantissaEnd(s) - 1 : IsDigit(s[j])})

MantissaNonZero(s) ==
    \E j \in MantissaStart(s)..MantissaEnd(s) - 1 : IsDigit(s[j]) /\ s[j] # Ord("0")

\* an exponent marker follows a mantissa with a digit
HasMarker(s) ==
    MantissaDigits(s) >= 1 /\ MantissaEnd(s) <= Len(s) /\ IsMarker(s[MantissaEnd(s)])

\* the positions of the exponent's digits: ExponentStart(s) .. ExponentEnd(s) - 1
ExponentStart(s) ==
    LET m == MantissaEnd(s)
    IN  IF m + 1 <= Len(s) /\ IsSign(s[m + 1]) THEN m + 2 ELSE m + 1

ExponentEnd(s) == DigitsEnd(s, ExponentStart(s))

NegativeExponent(s) == MantissaEnd(s) + 1 <= Len(s) /\ s[MantissaEnd(s) + 1] = Ord("-")

IsKeywordAt(s, i) ==
    i + 2 <= Len(s)
    /\ SubSeq(s, i, i + 2) \in {Bytes(<<"i", "n", "f">>), Bytes(<<"n", "a", "n">>)}

\* the position after the literal of the grammar
\* [sign] (digits [. digits] | . digits) [marker [sign] digits]  |  [sign] (inf | nan)
LiteralEnd(s) ==
    IF IsKeywordAt(s, MantissaStart(s)) THEN MantissaStart(s) + 3
    ELSE IF HasMarker(s) /\ ExponentEnd(s) > ExponentStart(s) THEN ExponentEnd(s)
    ELSE MantissaEnd(s)

\* the whole input is one literal of the grammar
InGrammar(s) ==
    /\ IsKeywordAt(s, MantissaStart(s)) \/ MantissaDigits(s) >= 1
    /\ HasMarker(s) => ExponentEnd(s) > ExponentStart(s)
    /\ LiteralEnd(s) = Len(s) + 1

\* the literal ends with an exponent whose absolute value is at least 512
Exponent512(s) ==
    /\ HasMarker(s)
    /\ ExponentEnd(s) > ExponentStart(s)
    /\ ExponentEnd(s) = Len(s) + 1
    /\ LET nz == {j \in ExponentStart(s)..Len(s) : s[j] # Ord("0")}
       IN  /\ nz # {}
           /\ LET f == Least(nz)
                  n == Len(s) - f + 1
              IN  \/ n > 3
                  \/ /\ n = 3
                     /\ 100 * (s[f] - Ord("0")) + 10 * (s[f + 1] - Ord("0"))
                            + (s[f + 2] - Ord("0")) >= 512

\* [sign] digits, of at most 30 digits
IntegerLiteral(s) ==
    /\ MantissaStart(s) <= Len(s)
    /\ Len(s) - MantissaStart(s) + 1 <= 30
    /\ \A j \in MantissaStart(s)..Len(s) : IsDigit(s[j])

\* the value of the digits i..j of s, as 13 limbs
RECURSIVE DigitsValue(_, _, _)
DigitsValue(s, i, j) ==
    IF j < i THEN Limbs(<< >>, 13)
    ELSE MulSmallRange(DigitsValue(s, i, j - 1), 10, 1, 13, s[j] - Ord("0"))[1]

\* the doubles nearest to the natural v (limbs) with the sign neg: one, or the two
\* neighbours when v lies exactly half-way between them
NearestDoubles(v, neg) ==
    LET len == BitLength(v)
        sh == len - 53
        q == IF sh <= 0 THEN ShlLimbs(v, -sh, 8) ELSE ShrLimbs(v, sh, 8)
        half == sh > 0 /\ BitOf(v, sh - 1) = 1
        above == sh > 1 /\ StripLimbs(LowBits(v, sh - 1, Len(v))) # << >>
        pack(m) == Or64(Add64(Shl64(U64(1021 + len), 52), m),
                        IF neg THEN MinusZero ELSE Zero64)
    IN  IF len = 0 THEN {signed_zero(neg)}
        ELSE IF half /\ above THEN {pack(Add64(q, U64(1)))}
        ELSE IF half THEN {pack(q), pack(Add64(q, U64(1)))}
        ELSE {pack(q)}

(***************************************************************************)
(* The properties checked.                                                 *)
(***************************************************************************)

\* C1: an accepted integer literal (a digit string of up to 30 digits, with or
\* without sign) is converted to a double nearest to its value: the call does not
\* fail and returns the nearest double, or one of the two nearest when the value
\* lies exactly half-way between them.
NearestDoubleReturned ==
    pc = "returned" /\ IntegerLiteral(input) =>
        /\ ~failed
        /\ bits \in NearestDoubles(DigitsValue(input, MantissaStart(input), Len(input)),
                                   input[1] = Ord("-"))

\* C2: every double of the round-trip test, printed with 340 fractional digits, is
\* parsed without failure to exactly its own bit pattern; the text of a NaN is
\* parsed to a NaN.  The call never reaches the failure exit or the exponent.
RoundTripExact ==
    /\ pc \notin {"failed", "parse_exponent"}
    /\ pc = "returned" =>
          \A c \in TestCases :
              c.buffer = input =>
                  /\ ~failed
                  /\ IF c.signexp % 2048 = 2047 /\ c.fraction # Zero64
                     THEN bits \in {PlusNaN, MinusNaN}
                     ELSE bits = c.original_bits

\* a subnormal double (fraction 15, exponent field 0) has come back from its text
RoundTripSubnormal ==
    /\ pc = "returned"
    /\ ret = "value"
    /\ ~failed
    /\ bits = U64(15)
    /\ Len(input) > test_precision
    /\ ptr = Len(input)

\* C3: an input that is, as a whole, one literal of the grammar is parsed without
\* failure.
GrammarAccepted == pc = "returned" /\ InGrammar(input) => ~failed

\* a negative literal with an exponent has been parsed to a value
GrammarExponentParsed ==
    /\ pc = "returned"
    /\ InGrammar(input)
    /\ HasMarker(input)
    /\ negative
    /\ ret = "value"
    /\ ~failed

\* C4: a call that has consumed no digit and has not matched "inf" or "nan" returns
\* failed.
NoDigitsFails ==
    pc = "returned" /\ digits = 0
    /\ ~(ptr >= 3 /\ IsKeywordAt(input, ptr - 2))
        => failed /\ ret = "failed"

\* "+." has failed as a literal without digits
SignPointFailed ==
    /\ pc = "returned"
    /\ input = Bytes(<<"+", ".">>)
    /\ failed
    /\ error_message = <<"Numeric literal without digits.">>

\* C5: an exponent marker after a mantissa with a digit, with no exponent digit
\* after the marker and its optional sign, makes the call fail.
IncompleteExponentFails ==
    pc = "returned" /\ HasMarker(input) /\ ExponentEnd(input) = ExponentStart(input)
        => failed

\* C6: after a successful call on an input that starts with a digit literal (an
\* exponent marker, if there is one, has its digits) the cursor is directly after
\* that literal.
CursorAfterLiteral ==
    pc = "returned" /\ ~failed /\ MantissaDigits(input) >= 1
    /\ (HasMarker(input) => ExponentEnd(input) > ExponentStart(input))
        => ptr = LiteralEnd(input) - 1

\* C7: when the mantissa, with at least one digit, is followed by a byte that is
\* no exponent marker, the call succeeds and the cursor is at that byte.
TerminatorNotConsumed ==
    pc = "returned" /\ MantissaDigits(input) >= 1 /\ MantissaEnd(input) <= Len(input)
    /\ ~IsMarker(input[MantissaEnd(input)])
        => ~failed /\ ptr = MantissaEnd(input) - 1

\* a value has been returned with the cursor at a second point
SecondPointLeft ==
    /\ pc = "returned"
    /\ ret = "value"
    /\ ~failed
    /\ fractional_digits = U64(1)
    /\ ptr < Len(input)
    /\ input[ptr + 1] = Ord(".")

\* C8: once failed is set, no later step of the call changes the error message or
\* moves the cursor.
StatusWriteOnce == [][failed => error_message' = error_message /\ ptr' = ptr]_vars

\* C9: failed is true at return exactly when the call leaves through the failure
\* exit; the returns of signed infinity and signed zero leave failed false and
\* give the infinity or zero of the literal's sign.
RangeIsNoError ==
    pc = "returned" =>
        /\ failed <=> ret = "failed"
        /\ ret = "infinity" => ~failed /\ bits = (IF negative THEN MinusInfinity ELSE PlusInfinity)
        /\ ret = "zero" => ~failed /\ bits = (IF negative THEN MinusZero ELSE Zero64)

\* infinity has been returned for a digit literal whose binary exponent is above 1023
OverflowReturned ==
    /\ pc = "returned"
    /\ ret = "infinity"
    /\ keyword = ""
    /\ binexp > 1023
    /\ ~failed

\* C10 as stated: a literal with an exponent of at least 512 gives infinity of its
\* sign, one with an exponent of at most -512 gives zero of its sign, whatever the
\* mantissa.
Exponent512Saturates ==
    pc = "returned" /\ Exponent512(input) =>
        bits = IF NegativeExponent(input) THEN signed_zero(input[1] = Ord("-"))
               ELSE signed_infinity(input[1] = Ord("-"))

\* C10, amended: with a mantissa of at most 19 digits, an exponent of at least 512
\* gives infinity of the literal's sign if the mantissa has a non-zero digit and
\* zero of its sign if it has none; an exponent of at most -512 gives zero of the
\* literal's sign.
Exponent512ShortMantissa ==
    pc = "returned" /\ Exponent512(input) /\ MantissaDigits(input) <= 19 =>
        /\ ~failed
        /\ bits = IF NegativeExponent(input) \/ ~MantissaNonZero(input)
                  THEN signed_zero(input[1] = Ord("-"))
                  ELSE signed_infinity(input[1] = Ord("-"))

\* a zero mantissa with an exponent of at least 512 has given +0
ZeroMantissaExponent512 ==
    /\ pc = "returned"
    /\ Exponent512(input)
    /\ ~NegativeExponent(input)
    /\ ~MantissaNonZero(input)
    /\ bits = Zero64
    /\ ~failed

(***************************************************************************)
(* Sign, keywords and boundary values.                                     *)
(***************************************************************************)

\* C11: after a successful call the sign bit of the result is set exactly when the
\* input starts with '-'; a negative literal whose mantissa digits are all zero
\* gives 0x8000000000000000, "-inf" gives 0xFFF0000000000000 and "-nan" gives
\* 0xFFFFFFFFFFFFFFFF; no input with two sign bytes at its start is accepted.
SignFollowsLiteral ==
    pc = "returned" /\ ~failed =>
        /\ Negative64(bits) <=> input[1] = Ord("-")
        /\ ~(Len(input) >= 2 /\ IsSign(input[1]) /\ IsSign(input[2]))
        /\ input[1] = Ord("-") /\ MantissaDigits(input) >= 1 /\ ~MantissaNonZero(input)
               => bits = MinusZero
        /\ input[1] = Ord("-") /\ IsKeywordAt(input, 2) =>
               bits = (IF input[2] = Ord("i") THEN MinusInfinity ELSE MinusNaN)

\* "-0" has been parsed to the negative zero
NegativeZeroReturned ==
    /\ pc = "returned"
    /\ input = Bytes(<<"-", "0">>)
    /\ ~failed
    /\ ret = "zero"
    /\ bits = MinusZero

\* the bit pattern b is a NaN: exponent field 0x7FF and a non-zero fraction
IsNaNBits(b) ==
    /\ And64(b, W64(\h7FF0, 0, 0, 0)) = W64(\h7FF0, 0, 0, 0)
    /\ And64(b, W64(\h000F, \hFFFF, \hFFFF, \hFFFF)) # Zero64

\* C12: a call returns a NaN only after matching the keyword "nan" (the three bytes
\* before the cursor), and then the pattern is 0x7FFFFFFFFFFFFFFF, or
\* 0xFFFFFFFFFFFFFFFF after '-'; a call that has read a digit never returns a NaN.
CanonicalNaNOnly ==
    pc = "returned" /\ IsNaNBits(bits) =>
        /\ ~failed
        /\ keyword = "nan"
        /\ digits = 0
        /\ ptr >= 3
        /\ SubSeq(input, ptr - 2, ptr) = Bytes(<<"n", "a", "n">>)
        /\ bits = (IF input[1] = Ord("-") THEN MinusNaN ELSE PlusNaN)

\* "-nan" has been parsed to the negative NaN
NegativeNaNReturned ==
    /\ pc = "returned"
    /\ keyword = "nan"
    /\ negative
    /\ ~failed
    /\ bits = MinusNaN

\* the boundary literals and the bit patterns of their values: 0, 0, 1, 1.5, 10^10
\* and the double nearest to 0.0015
BoundaryLiteralBits ==
    {<<Bytes(<<"0">>), Zero64>>,
     <<Bytes(<<"0", ".", "0">>), Zero64>>,
     <<Bytes(<<"1">>), W64(\h3FF0, 0, 0, 0)>>,
     <<Bytes(<<"1", ".", "5">>), W64(\h3FF8, 0, 0, 0)>>,
     <<Bytes(<<"1", "e", "1", "0">>), W64(\h4202, \hA05F, \h2000, 0)>>,
     <<Bytes(<<"1", ".", "5", "e", "-", "3">>), W64(\h3F58, \h9374, \hBC6A, \h7EFA)>>}

\* C13: "0", "0.0", "1", "1.5", "1e10" and "1.5e-3" are parsed without failure to
\* exactly the bit patterns of their values, the whole input consumed.
BoundaryLiteralsExact ==
    pc = "returned" =>
        \A p \in BoundaryLiteralBits :
            input = p[1] => ~failed /\ bits = p[2] /\ ptr = Len(input)

\* "1.5e-3" has been scaled by 10^-4 and returned as the double nearest to 0.0015
FractionExponentReturned ==
    /\ pc = "returned"
    /\ input = Bytes(<<"1", ".", "5", "e", "-", "3">>)
    /\ ret = "value"
    /\ fractional_digits = U64(4)
    /\ bits = W64(\h3F58, \h9374, \hBC6A, \h7EFA)

(***************************************************************************)
(* Calls in sequence: the test of main calls parse_double once per buffer  *)
(* (lines 630-640); previous keeps what the earlier calls returned.        *)
(***************************************************************************)

\* the result of the call that has returned
call_result ==
    [input |-> input, end |-> end, failed |-> failed,
     error_message |-> error_message, bits |-> bits, ptr |-> ptr]

\* a further call of parse_double, on a new stream whose window holds the first w
\* bytes of in, with a cleared status
NextCall(in, w) ==
    /\ pc = "returned"
    /\ previous' = Append(previous, call_result)
    /\ input' = in
    /\ ptr' = 0
    /\ end' = w
    /\ starved' = FALSE
    /\ failed' = FALSE
    /\ error_message' = << >>
    /\ pc' = "start"
    /\ ret' = "none"
    /\ bits' = Zero64
    /\ negative' = FALSE
    /\ mantissa' = Zero64
    /\ digits' = 0
    /\ significant_digits' = 0
    /\ fractional_digits' = MinusOne64
    /\ decimal_exponent' = Zero64
    /\ negative_exponent' = FALSE
    /\ absolute_exponent' = Zero64
    /\ binexp' = 0
    /\ word' = << >>
    /\ keyword' = ""
    /\ asserted' = asserted
    /\ UNCHANGED <<factor, hist_vars>>

(***************************************************************************)
(* Two calls on literals that differ in trailing zeros of the fraction.    *)
(***************************************************************************)
MaxZeros == 2

\* mantissas with a fractional part, and the exponent part that follows them
ZeroBases ==
    {<<Bytes(<<"0", ".", "0", "1", "2", "0", "7">>), << >>>>,
     <<Bytes(<<"1", ".", "5">>), << >>>>,
     <<Bytes(<<"0", ".", "1">>), << >>>>,
     <<Bytes(<<"1", ".", "5">>), Bytes(<<"e", "-", "3">>)>>,
     <<Bytes(<<"0", ".", "0">>), << >>>>,
     <<Bytes(<<"-", "2", ".", "5">>), Bytes(<<"E", "+", "2">>)>>,
     <<Bytes(<<"0", ".", "5">>), Bytes(<<"e", "-", "3", "3", "0">>)>>,
     <<Bytes(<<"1", ".">>), << >>>>,
     <<Bytes(<<"1", "2", "3", "4", "5", "6", "7", "8", "9", "0", "1", "2", "3", "4", "5", "6", "7", "8", ".", "9">>), << >>>>,
     <<Bytes(<<"0", ".", "7", "5", "9", "3", "2", "5", "5", "8">>), << >>>>}

\* numbers of zeros appended: a few, and enough to fill the accumulator and more
ZeroCounts == (1..MaxZeros) \cup {17 + MaxZeros, 18 + MaxZeros}

InitTrailingZeros == \E b \in ZeroBases : InitCall(b[1] \o b[2], Len(b[1]) + Len(b[2]))

\* the second call: the same literal with k more zeros at the end of its fraction
MoreZeros ==
    /\ previous = << >>
    /\ \E b \in ZeroBases, k \in ZeroCounts :
           /\ input = b[1] \o b[2]
           /\ NextCall(b[1] \o Repeat("0", k) \o b[2], Len(b[1]) + k + Len(b[2]))

NextTrailingZeros ==
    \/ Start
    \/ MainLoop
    \/ SkipDigits
    \/ ParseExponent
    \/ ExponentDigits
    \/ EndOfExponent
    \/ ReturnZero
    \/ EndOfNumber
    \/ Normalize
    \/ Round
    \/ MoreZeros

SpecTrailingZeros == InitTrailingZeros /\ [][NextTrailingZeros]_vars

\* C14: the call on the literal with more trailing zeros in its fraction returns the
\* same bit pattern as the call on the literal without them, and like it does not
\* fail.
TrailingZerosSameBits ==
    pc = "returned" /\ previous # << >> =>
        /\ failed = previous[1].failed
        /\ bits = previous[1].bits

(***************************************************************************)
(* Windows.  A DataStream is a window of bytes from ptr to end, and        *)
(* datastream_fetch adds nothing to it: the call on the window that holds  *)
(* the whole text, as main sets it up (lines 635-637), then calls on the   *)
(* same text with the window ending one byte earlier each time.  A call    *)
(* that finds the window still empty after datastream_fetch takes that for *)
(* the end of the input (starved); up to there, and in a call that never   *)
(* gets there, no step depends on what datastream_fetch provides.          *)
(***************************************************************************)
MaxWindowLen == 3

WindowInputs ==
    Texts(Alphabet, MaxWindowLen) \cup Texts(WordAlphabet, MaxWindowLen)
        \cup Literals \cup BoundaryLiterals

InitWindows == \E in \in WindowInputs : InitCall(in, Len(in))

\* the next call: the same text, the window one byte shorter than in the call before
Shorten ==
    /\ end > 0
    /\ NextCall(input, end - 1)

NextWindows ==
    \/ Start
    \/ MainLoop
    \/ SkipDigits
    \/ ParseExponent
    \/ ExponentDigits
    \/ EndOfExponent
    \/ ParseInfinity
    \/ ParseNan
    \/ ConsumeWord
    \/ AfterWord
    \/ ReturnInfinity
    \/ ReturnZero
    \/ EndOfNumber
    \/ Normalize
    \/ Round
    \/ Failed
    \/ Shorten

SpecWindows == InitWindows /\ [][NextWindows]_vars

\* the cursor is inside the window and the window inside the text, and no
\* assertion of the code has failed
CursorInWindow ==
    /\ asserted = {}
    /\ 0 <= ptr
    /\ ptr <= end
    /\ end <= Len(input)

\* a step of a call never moves the cursor back, consumes bytes only from a window
\* that is non-empty, and leaves the end of the window where it is
CursorStep ==
    pc # "returned" =>
        /\ ptr' >= ptr
        /\ ptr' > ptr => ptr < end
        /\ end' = end

\* C15: during every call, wherever the window ends, the cursor stays between the
\* start of the text and the end of the window, datastream_fetch is called only on
\* an empty window (its assertion never fails), bytes are consumed only from a
\* non-empty window, and the cursor never moves back.
CursorProtocol == [](CursorInWindow) /\ [][CursorStep]_vars

\* a call on a window that ends before the text does has found the window empty,
\* called datastream_fetch, and returned the value of the three or more bytes of
\* the window
ShortWindowCallReturned ==
    /\ pc = "returned"
    /\ end < Len(input)
    /\ ptr = end
    /\ ptr >= 3
    /\ ret = "value"
    /\ ~failed
    /\ asserted = {}

\* C16: parse_double returns the same bit pattern and the same failed, and has
\* consumed the same number of bytes, however the text is split between the initial
\* window and the refills: a call whose initial window holds a part of the text
\* only and that has never found the window still empty after datastream_fetch has
\* taken the steps it takes whatever the refills hand out, and returns what the call
\* on the same text held whole in the initial window has returned.
DeliveryIndependent ==
    pc = "returned" /\ previous # << >> /\ ~starved =>
        /\ previous[1].input = input
        /\ previous[1].end = Len(input)
        /\ bits = previous[1].bits
        /\ failed = previous[1].failed
        /\ ptr = previous[1].ptr

(***************************************************************************)
(* histogram_next_frequent (src/histogram.cpp): the bins by decreasing     *)
(* count.  A caller starts with *n = 0 and calls again with the *index and *)
(* *n of the call before, for as long as true is returned.                 *)
(***************************************************************************)
MaxBins == 4
MaxCount == 2

\* the variables of a call of parse_double
call_vars == <<input, previous, ptr, end, starved, failed, error_message, pc, ret, bits,
               scan_vars, exp_vars, binexp, word_vars>>

\* no call of parse_double is made while the histogram is read
ParserUnused ==
    /\ input = << >>
    /\ previous = << >>
    /\ factor = no_factor
    /\ ptr = 0
    /\ end = 0
    /\ starved = FALSE
    /\ failed = FALSE
    /\ error_message = << >>
    /\ pc = "none"
    /\ ret = "none"
    /\ bits = Zero64
    /\ negative = FALSE
    /\ mantissa = Zero64
    /\ digits = 0
    /\ significant_digits = 0
    /\ fractional_digits = MinusOne64
    /\ decimal_exponent = Zero64
    /\ negative_exponent = FALSE
    /\ absolute_exponent = Zero64
    /\ binexp = 0
    /\ word = << >>
    /\ keyword = ""
    /\ asserted = {}

\* lines 773-778: the first i >= from with bins[i] = count, or nbins if there is none
RECURSIVE same_count(_, _, _)
same_count(h, i, count) ==
    IF i >= h.nbins THEN h.nbins
    ELSE IF h.bins[i + 1] = count THEN i
    ELSE same_count(h, i + 1, count)

\* the loop of lines 782-788 taking a bin of an equal count too, so that the last
\* bin of the highest count is kept
RECURSIVE next_highest_last(_, _, _, _, _)
next_highest_last(h, i, unlimited, limit, found) ==
    IF i >= h.nbins THEN found
    ELSE next_highest_last(h, i + 1, unlimited, limit,
                           IF h.bins[i + 1] >= found.n /\ h.bins[i + 1] > 0
                              /\ (unlimited \/ h.bins[i + 1] <= limit)
                           THEN [index |-> i, n |-> h.bins[i + 1]]
                           ELSE found)

\* lines 782-788: the loop over the bins from i on; found is the pair *index, *n.
\* limit = UINT64_MAX of the first call is unlimited, every count being below it.
RECURSIVE next_highest(_, _, _, _, _)
next_highest(h, i, unlimited, limit, found) ==
    IF i >= h.nbins THEN found
    ELSE next_highest(h, i + 1, unlimited, limit,
                      IF h.bins[i + 1] > found.n /\ (unlimited \/ h.bins[i + 1] <= limit)
                      THEN [index |-> i, n |-> h.bins[i + 1]]
                      ELSE found)

\* histogram_next_frequent(hist, index, n): the value returned, *index and *n
histogram_next_frequent(h, index, n) ==
    LET same == IF n = 0 THEN h.nbins ELSE same_count(h, index + 1, n)
        next == next_highest(h, 0, n = 0, n - 1, [index |-> index, n |-> 0])
    IN  IF same < h.nbins
        THEN [returned |-> TRUE, index |-> same, n |-> n]
        ELSE [returned |-> next.n > 0, index |-> next.index, n |-> next.n]

\* a histogram of at least three bins (histogram_init) with any counts, and a caller
\* about to make its first call: *n = 0, *index anything
InitFrequent ==
    /\ ParserUnused
    /\ \E nb \in 3..MaxBins :
           \E b \in [1..nb -> 0..MaxCount], i \in {0, nb - 1} :
               /\ hist = [bins |-> Tuple(b, nb), nbins |-> nb, binwidth |-> 1]
               /\ frequent = [index |-> i, n |-> 0, returned |-> "none"]
    /\ enumerated = << >>

\* one call by the caller's loop, made while the call before has returned true
NextFrequent ==
    /\ frequent.returned # "false"
    /\ LET r == histogram_next_frequent(hist, frequent.index, frequent.n)
       IN  /\ frequent' = [index |-> r.index, n |-> r.n,
                         returned |-> IF r.returned THEN "true" ELSE "false"]
           /\ enumerated' = IF r.returned THEN Append(enumerated, r.index) ELSE enumerated
    /\ asserted' = IF hist.binwidth > 0 THEN asserted ELSE asserted \cup {"hist->binwidth > 0"}
    /\ UNCHANGED <<hist, factor, call_vars>>

SpecFrequent == InitFrequent /\ [][NextFrequent]_vars /\ WF_vars(NextFrequent)

\* what the calls so far have found: indices of bins, none twice, none empty, each
\* with the count reported, in order of non-increasing count and, among equal
\* counts, of increasing index; once false is returned, every non-empty bin
EnumerationInOrder ==
    /\ \A k \in 1..Len(enumerated) :
           /\ enumerated[k] \in 0..(hist.nbins - 1)
           /\ hist.bins[enumerated[k] + 1] > 0
    /\ \A k \in 1..(Len(enumerated) - 1) :
           \/ hist.bins[enumerated[k] + 1] > hist.bins[enumerated[k + 1] + 1]
           \/ /\ hist.bins[enumerated[k] + 1] = hist.bins[enumerated[k + 1] + 1]
              /\ enumerated[k] < enumerated[k + 1]
    /\ frequent.returned = "true" =>
           /\ enumerated[Len(enumerated)] = frequent.index
           /\ hist.bins[frequent.index + 1] = frequent.n
    /\ frequent.returned = "false" =>
           {enumerated[k] : k \in 1..Len(enumerated)}
               = {i \in 0..(hist.nbins - 1) : hist.bins[i + 1] > 0}
    /\ asserted = {}

\* C17: the calls of histogram_next_frequent, started with *n = 0 and fed with the
\* outputs of the call before, return every bin with a non-zero count exactly once,
\* by non-increasing count and, for equal counts, increasing index, and then
\* return false.
FrequentEnumeration == [](EnumerationInOrder) /\ <>(frequent.returned = "false")

\* false has been returned after four bins were found, two of them of equal count
AllBinsEnumerated ==
    /\ frequent.returned = "false"
    /\ Len(enumerated) = 4
    /\ hist.bins[enumerated[2] + 1] = hist.bins[enumerated[3] + 1]
    /\ hist.bins[enumerated[1] + 1] > hist.bins[enumerated[4] + 1]

(***************************************************************************)
(* Rounding and accumulation.                                              *)
(***************************************************************************)

\* round to nearest, ties to even, of the 64-bit mantissa to 52 bits: up when the 12
\* low bits are above 0x800, or are 0x800 and bit 12 is set; a round-up that wraps
\* increments the binary exponent and halves the mantissa
round_ties_to_even(x) ==
    LET low == And64(x.mantissa, U64(\hFFF))
        odd == And64(x.mantissa, U64(\h1000)) # Zero64
        m == Add64(x.mantissa, Shl64(U64(1), 11))
    IN  IF Less64(U64(\h800), low) \/ (low = U64(\h800) /\ odd)
        THEN IF Less64(m, Shl64(U64(1), 11))
             THEN [mantissa |-> Shr64(m, 1), binexp |-> x.binexp + 1]
             ELSE [mantissa |-> m, binexp |-> x.binexp]
        ELSE x

\* C18: the rounding step leaves the mantissa and binary exponent that rounding to
\* nearest with ties to even gives: up above half, down below half, to the even
\* kept significand at exactly half.
RoundsTiesToEven ==
    [][pc = "round" /\ subnormal([mantissa |-> mantissa, binexp |-> binexp]).ret = "value" =>
           LET x == round_ties_to_even(subnormal([mantissa |-> mantissa, binexp |-> binexp]).x)
               kept == Shr64(x.mantissa, 12)
           IN  /\ binexp' = x.binexp
               /\ Shr64(mantissa', 12) = kept]_vars

\* C19: "inf" or "nan" is looked for only at the first byte of the input or directly
\* after its sign; there, the call succeeds exactly when the three bytes are "inf"
\* or "nan" in lower case, and fails for any other byte or the end of the input
\* inside the keyword.
KeywordOnlyAtStart ==
    pc = "returned" =>
        /\ keyword # "" =>
               /\ MantissaStart(input) <= Len(input)
               /\ input[MantissaStart(input)] = (IF keyword = "inf" THEN Ord("i") ELSE Ord("n"))
        /\ MantissaStart(input) <= Len(input)
           /\ input[MantissaStart(input)] \in {Ord("i"), Ord("n")}
               => /\ keyword # ""
                  /\ failed <=> ~IsKeywordAt(input, MantissaStart(input))

\* C20: a digit read by the main loop is appended to the mantissa exactly when
\* 10 * mantissa + digit is at most 2^64 - 1, and then the mantissa is that value
\* exactly; otherwise the mantissa is left as it is and no further digit is
\* appended.
AccumulationExact ==
    [][pc = "main" /\ ptr # end /\ is_digit_byte(current) =>
           LET wide == MulSmallFrom(mantissa, 10, 1, current - Ord("0"))
           IN  IF wide[9] = 0
               THEN mantissa' = SubSeq(wide, 1, 8)
               ELSE mantissa' = mantissa /\ significant_digits' = 20 /\ pc' = "skip_digits"]_vars

\* 18446744073709551615 = 2^64 - 1 has been accumulated from 20 digits
LargestMantissaAccumulated ==
    /\ mantissa = MinusOne64
    /\ digits = 20
    /\ significant_digits = 20

(***************************************************************************)
(* The decimal counters and the exponent.                                  *)
(***************************************************************************)

\* One byte of the mantissa of a literal: a digit is taken while open and
\* 10 * value + digit is at most 2^64 - 1; from the first digit left out on, every
\* digit is left out.  value: the digits taken; left: the number of digits left out.
LiteralDigit(byte, st) ==
    IF ~IsDigit(byte) THEN st
    ELSE LET wide == MulSmallFrom(st.value, 10, 1, byte - Ord("0"))
         IN  IF st.open /\ wide[9] = 0
             THEN [value |-> SubSeq(wide, 1, 8), open |-> TRUE, left |-> st.left]
             ELSE [value |-> st.value, open |-> FALSE, left |-> st.left + 1]

\* the bytes a..b of the literal s, one after the other (by halves)
RECURSIVE LiteralRange(_, _, _, _)
LiteralRange(s, a, b, st) ==
    IF a > b THEN st
    ELSE IF a = b THEN Once(LAMBDA x : x, LiteralDigit(s[a], st))
    ELSE Once(LAMBDA mid : LiteralRange(s, (a + b) \div 2 + 1, b, mid),
              LiteralRange(s, a, (a + b) \div 2, st))

\* The mantissa digits of the literal s from position j on, with v the value of the
\* digits taken so far.
LiteralMantissa(s, j, v, open) ==
    LET r == LiteralRange(s, j, MantissaEnd(s) - 1, [value |-> v, open |-> open, left |-> 0])
    IN  [value |-> r.value, left |-> r.left]

\* the number of mantissa digits after the point
FractionDigits(s) ==
    LET a == DigitsEnd(s, MantissaStart(s))
    IN  IF a <= Len(s) /\ s[a] = Ord(".") THEN MantissaEnd(s) - a - 1 ELSE 0

\* the absolute value of the literal's exponent (0 without exponent digits), 13 limbs
LiteralExponent(s) ==
    IF HasMarker(s) THEN DigitsValue(s, ExponentStart(s), ExponentEnd(s) - 1)
    ELSE Limbs(<< >>, 13)

\* a + b for naturals of up to 13 limbs
Sum13(a, b) == SubSeq(AddLimbs(a, b, 13), 1, 13)

\* C21: at end_of_number of a call that has read a digit, mantissa is the value of
\* the mantissa digits taken, and decimal_exponent - max(fractional_digits, 0) is
\* the literal's exponent, minus the number of digits after the point, plus the
\* number of digits left out; written with both sides non-negative:
\* decimal_exponent + digits after the point + (negative exponent)
\*     = max(fractional_digits, 0) + digits left out + (positive exponent).
DecimalBookkeepingExact ==
    pc = "end_of_number" /\ digits # 0 =>
        LET lit == LiteralMantissa(input, MantissaStart(input), Zero64, TRUE)
            exponent == LiteralExponent(input)
            down == HasMarker(input) /\ NegativeExponent(input)
            f0 == IF Negative64(fractional_digits) THEN Zero64 ELSE fractional_digits
        IN  /\ mantissa = lit.value
            /\ Sum13(Sum13(decimal_exponent, NatLimbs(FractionDigits(input), 13)),
                     IF down THEN exponent ELSE Limbs(<< >>, 13))
               = Sum13(Sum13(f0, NatLimbs(lit.left, 13)),
                       IF down THEN Limbs(<< >>, 13) ELSE exponent)

\* digits were left out before the point and a negative exponent larger than their
\* number has been folded in: 1234567890123456789012e-3
SkippedDigitsFolded ==
    /\ pc = "end_of_number"
    /\ input = Bytes(<<"1", "2", "3", "4", "5", "6", "7", "8", "9", "0", "1", "2", "3", "4", "5", "6", "7", "8", "9", "0", "1", "2", "e", "-", "3">>)
    /\ fractional_digits = U64(1)
    /\ decimal_exponent = Zero64
    /\ absolute_exponent = U64(1)
    /\ significant_digits = 20

\* a - min(a, b) for two uint64_t values
Remainder64(a, b) == IF Less64(a, b) THEN Zero64 ELSE Sub64(a, b)

\* the exit taken when the exponent goes beyond what the counters hold
saturated_exit ==
    IF negative_exponent \/ ~MantissaNonZero(input)
    THEN "return_possibly_signed_zero" ELSE "return_possibly_signed_infinity"

\* C22: an exponent digit is appended to absolute_exponent exactly when
\* 10 * absolute_exponent + digit is at most 2^64 - 1, and then absolute_exponent is
\* that value; otherwise the call leaves for signed zero (negative exponent, or no
\* non-zero mantissa digit) or signed infinity.  At end_of_exponent the call goes on
\* to end_of_number unless the part of the exponent that remains after cancelling
\* against the other counter, added to max(fractional_digits, 0), is 2^63 or more
\* (negative exponent) or, added to decimal_exponent, is 2^64 or more; then it
\* leaves for signed zero or signed infinity in the same way.
ExponentSaturates ==
    [][/\ pc = "exponent_digits" /\ ptr # end /\ is_digit_byte(current) =>
              LET wide == MulSmallFrom(absolute_exponent, 10, 1, current - Ord("0"))
              IN  IF wide[9] = 0
                  THEN absolute_exponent' = SubSeq(wide, 1, 8) /\ pc' = "exponent_digits"
                  ELSE absolute_exponent' = absolute_exponent /\ pc' = saturated_exit
       /\ pc = "end_of_exponent" =>
              LET down == negative_exponent /\ absolute_exponent # Zero64
                  f0 == IF Negative64(fractional_digits) THEN Zero64 ELSE fractional_digits
                  sum == IF down
                         THEN AddLimbs(f0, Remainder64(absolute_exponent, decimal_exponent), 8)
                         ELSE AddLimbs(decimal_exponent, Remainder64(absolute_exponent, f0), 8)
                  overflow == sum[9] # 0 \/ (down /\ sum[8] >= 128)
              IN  pc' = IF overflow THEN saturated_exit ELSE "end_of_number"]_vars

\* the digit that would take the exponent beyond 2^64 - 1 has been refused and
\* infinity returned with the cursor at that digit
ExponentDigitRefused ==
    /\ pc = "returned"
    /\ ret = "infinity"
    /\ absolute_exponent = W64(\h1999, \h9999, \h9999, \h9999)
    /\ ptr < Len(input)
    /\ input[ptr + 1] = Ord("6")

\* (int64_t)a > 0
Positive64(a) == ~Negative64(a) /\ a # Zero64

\* C23: in every state of a call fractional_digits and decimal_exponent are not
\* both greater than zero, and the assertion at end_of_number has never failed.
CountersNotBothPositive ==
    /\ ~(Positive64(fractional_digits) /\ decimal_exponent # Zero64)
    /\ "(fractional_digits <= 0) || (decimal_exponent == 0)" \notin asserted

\* end_of_number is reached with digits skipped before the point and a point seen:
\* decimal_exponent = 3, fractional_digits = 0
SkippedBeforePoint ==
    /\ pc = "end_of_number"
    /\ fractional_digits = Zero64
    /\ decimal_exponent = U64(3)
    /\ HasMarker(input) = FALSE

\* the labels of the scanner, before the mantissa is normalized
ScanLabels ==
    {"start", "main", "skip_digits", "parse_exponent", "exponent_digits",
     "end_of_exponent", "end_of_number", "normalize"}

\* significant_digits == 0 exactly when mantissa == 0 while scanning; normalization
\* starts with mantissa != 0; the assertion of the mantissa-limit branch holds
ZeroMantissaTracked ==
    /\ pc \in ScanLabels => (significant_digits = 0 <=> mantissa = Zero64)
    /\ pc = "normalize" => mantissa # Zero64 /\ MantissaNonZero(input)
    /\ "significant_digits == 19" \notin asserted

\* the mantissa-limit branch is taken with significant_digits == 19
LimitAtNineteen ==
    pc = "main" /\ ptr # end /\ is_digit_byte(current)
    /\ Less64(accumulator_limit(digit_value_of(current)), mantissa)
        => significant_digits = 19 /\ significant_digits' = 20

\* a literal with a digit and no non-zero digit leaves end_of_number for the return
\* of signed zero
ZeroLeavesForZero ==
    pc = "end_of_number" /\ digits # 0 /\ ~MantissaNonZero(input)
        => pc' = "return_possibly_signed_zero"

\* C24: a literal with at least one digit and no non-zero digit goes from
\* end_of_number to the return of signed zero and never to normalization, which is
\* entered only with mantissa != 0; while scanning, significant_digits == 0 holds
\* exactly when mantissa == 0; the mantissa-limit branch is taken only with
\* significant_digits == 19; a successful call on such a literal returns the zero of
\* its sign.
ZeroLiteralHandling ==
    /\ [](ZeroMantissaTracked)
    /\ [][LimitAtNineteen /\ ZeroLeavesForZero]_vars
    /\ [](pc = "returned" /\ ~failed /\ MantissaDigits(input) >= 1 /\ ~MantissaNonZero(input)
              => ret = "zero" /\ bits = signed_zero(input[1] = Ord("-")))

\* "0.00" has been returned as +0 from end_of_number
ZeroFractionReturned ==
    /\ pc = "returned"
    /\ input = Bytes(<<"0", ".", "0", "0">>)
    /\ ret = "zero"
    /\ bits = Zero64
    /\ fractional_digits = U64(2)
    /\ significant_digits = 0
    /\ binexp = 0

(***************************************************************************)
(* The powers of ten.                                                      *)
(***************************************************************************)

\* a * 10^t as n limbs, by halves (t >= 1; the product fits)
RECURSIVE TimesPower10(_, _, _)
TimesPower10(a, t, n) ==
    IF t <= 4 THEN MulSmall(a, 10 ^ t, n)
    ELSE LET h == TimesPower10(a, t \div 2, n)
         IN  Strict(h, TimesPower10(h, t - t \div 2, n))

\* The table row <<2^k, mant, exp>> is 10^(2^k), or its reciprocal, rounded to the
\* nearest number 2^exp * (1 + mant / 2^64).  With M2 = 2 * (2^64 + mant):
\*     (M2 - 1) * 2^exp <= 2^65 * 10^(2^k) <= (M2 + 1) * 2^exp,     respectively
\*     (M2 - 1) * 10^(2^k) <= 2^(65 - exp) <= (M2 + 1) * 10^(2^k),
\* computed in 120 limbs (the largest of these numbers has 917 bits).
NominalPower(row, k, reciprocal) ==
    LET m2 == ShlLimbs(row[2] \o <<1>>, 1, 10)
        lo == SubLimbs(m2, <<1>>, 10)
        hi == [m2 EXCEPT ![1] = m2[1] + 1]
        leq(a, b) ==
            LET differ == {i \in 1..120 : a[i] # b[i]}
            IN  differ = {} \/ LET top == CHOOSE i \in differ : \A j \in differ : j <= i
                               IN  a[top] < b[top]
    IN  /\ row[1] = 2 ^ k
        /\ IF reciprocal
           THEN LET one == ShlLimbs(<<1>>, 65 - row[3], 120)
                IN  /\ leq(TimesPower10(lo, 2 ^ k, 120), one)
                    /\ leq(one, TimesPower10(hi, 2 ^ k, 120))
           ELSE LET v == TimesPower10(ShlLimbs(<<1>>, 65, 120), 2 ^ k, 120)
                IN  leq(ShlLimbs(lo, row[3], 120), v) /\ leq(v, ShlLimbs(hi, row[3], 120))

\* row 9 - k of either table holds the constant for 10^(2^k), respectively 10^(-2^k)
TablesNominal ==
    \A k \in 0..8 : /\ NominalPower(PositivePowers[9 - k], k, FALSE)
                    /\ NominalPower(NegativePowers[9 - k], k, TRUE)

\* the exponents k = 8..0 whose bit is set in the natural n, highest first
SetBits(n) == SelectSeq(<<8, 7, 6, 5, 4, 3, 2, 1, 0>>, LAMBDA k : (n \div 2 ^ k) % 2 = 1)

\* mulf64 applied once for each of the first i exponents of ks, with the constant
\* of the table for it
RECURSIVE ApplyConstants(_, _, _, _)
ApplyConstants(x, ks, table, i) ==
    IF i = 0 THEN x
    ELSE LET prev == ApplyConstants(x, ks, table, i - 1)
             row == table[9 - ks[i]]
         IN  Strict(prev, mulf64(prev.mantissa, prev.binexp, row[2], row[3]))

\* the step that normalizes the mantissa and applies the powers of ten
PowersStep ==
    pc = "normalize" =>
        LET x == normalize(mantissa)
            down == Positive64(fractional_digits)
            n == IF down THEN fractional_digits ELSE decimal_exponent
            ks == SetBits(LimbsNat(n))
            r == ApplyConstants(x, ks, IF down THEN NegativePowers ELSE PositivePowers,
                                Len(ks))
        IN  IF ~Less64(n, U64(512))
            THEN /\ pc' = IF down THEN "return_possibly_signed_zero"
                          ELSE "return_possibly_signed_infinity"
                 /\ mantissa' = x.mantissa
                 /\ binexp' = x.binexp
            ELSE /\ pc' = "round"
                 /\ mantissa' = r.mantissa
                 /\ binexp' = r.binexp

\* C25: with net decimal shift n (fractional_digits for a negative power, otherwise
\* decimal_exponent), n >= 512 leaves for signed zero (negative power) or signed
\* infinity with the normalized mantissa untouched by mulf64; for n <= 511 the
\* result is that of one mulf64 call for each set bit k of n, k = 8..0, with row k of
\* the table of that direction only; and row k of either table is 10^(2^k),
\* respectively 10^(-2^k), rounded to nearest, so the constants applied multiply
\* nominally to 10^n, respectively 10^-n.
PowersOfTenApplied == [](TablesNominal) /\ [][PowersStep]_vars

\* 10^-511 has been applied with all nine constants of the negative table
AllNegativePowersApplied ==
    /\ pc = "round"
    /\ fractional_digits = U64(511)
    /\ decimal_exponent = Zero64
    /\ binexp < -1023 - 64

(***************************************************************************)
(* mulf64 called on its own: mulf64(&mantissa, &binexp, my, ey).           *)
(***************************************************************************)

\* the binary exponents of the operands are in -MaxExp .. MaxExp
MaxExp == 1

\* mantissas: every word whose 16-bit groups are 0, 1, 0x8000 or 0xFFFF at both
\* ends and 0, 0x5555 or 0xFFFF in the middle
MulMantissas ==
    {W64(a, b, b, d) : a, d \in {0, 1, \h8000, \hFFFF}, b \in {0, \h5555, \hFFFF}}

\* the operands of the call; no call of parse_double and no histogram
InitMulf64 ==
    /\ mantissa \in MulMantissas
    /\ binexp \in -MaxExp..MaxExp
    /\ \E my \in MulMantissas, ey \in {-MaxExp, MaxExp} : factor = [my |-> my, ey |-> ey]
    /\ pc = "mulf64"
    /\ HistogramUnused
    /\ input = << >>
    /\ previous = << >>
    /\ ptr = 0
    /\ end = 0
    /\ starved = FALSE
    /\ failed = FALSE
    /\ error_message = << >>
    /\ ret = "none"
    /\ bits = Zero64
    /\ negative = FALSE
    /\ digits = 0
    /\ significant_digits = 0
    /\ fractional_digits = MinusOne64
    /\ decimal_exponent = Zero64
    /\ negative_exponent = FALSE
    /\ absolute_exponent = Zero64
    /\ word = << >>
    /\ keyword = ""
    /\ asserted = {}

\* the call
Mulf64Call ==
    /\ pc = "mulf64"
    /\ LET r == mulf64(mantissa, binexp, factor.my, factor.ey)
       IN  /\ mantissa' = r.mantissa
           /\ binexp' = r.binexp
    /\ pc' = "mulf64_returned"
    /\ UNCHANGED <<input, previous, starved, factor, hist_vars, ptr, end, ret, bits, status_vars,
                   negative, digits, significant_digits, fractional_digits,
                   decimal_exponent, exp_vars, word_vars, asserted>>

SpecMulf64 == InitMulf64 /\ [][Mulf64Call]_vars

\* C26: with P = (2^64 + mx) * (2^64 + my), the exact product of the two operands
\* scaled by 2^(128 - ex - ey), the number of carries floor(P / 2^128) - 1 is 0, 1
\* or 2; the exponent returned is ex + ey without a carry and ex + ey + 1 with one;
\* and the mantissa returned is floor(P / 2^64) - 2^64, respectively
\* floor(P / 2^65) - 2^64, a value in 0 .. 2^64 - 1.
Mulf64Truncates ==
    [][pc = "mulf64" =>
           LET product == MulLimbs(mantissa \o <<1>>, factor.my \o <<1>>, 9)
               carries == LimbsNat(ShrLimbs(product, 128, 18)) - 1
               e == binexp + factor.ey + (IF carries = 0 THEN 0 ELSE 1)
               scaled == ShrLimbs(product, IF carries = 0 THEN 64 ELSE 65, 18)
           IN  /\ carries \in {0, 1, 2}
               /\ binexp' = e
               /\ StripLimbs(scaled) = mantissa' \o <<1>>]_vars

\* the product of two mantissas 2^64 - 1 has been returned after two carries
TwoCarriesReturned ==
    /\ pc = "mulf64_returned"
    /\ factor.my = MinusOne64
    /\ mantissa = W64(\hFFFF, \hFFFF, \hFFFF, \hFFFE)
    /\ binexp = 2 * MaxExp + 1

(***************************************************************************)
(* The range of the binary exponent.                                       *)
(***************************************************************************)

\* the exponent field of a bit pattern: bits 52..62
ExponentField(b) == LimbsNat(Shr64(And64(b, W64(\h7FF0, 0, 0, 0)), 52))

\* the step from the scaled mantissa to the return
RangeStep ==
    pc = "round" =>
        IF binexp <= -1087 THEN pc' = "return_possibly_signed_zero"
        ELSE LET shift == -binexp - 1023
                 low == binexp <= -1023
                 x == IF low
                      THEN [mantissa |-> SubSeq(ShrLimbs(mantissa \o <<1>>, shift + 1, 9), 1, 8),
                            binexp |-> -1023]
                      ELSE [mantissa |-> mantissa, binexp |-> binexp]
                 r == round(x)
             IN  /\ low => shift \in 0..63
                 /\ mantissa' = r.mantissa
                 /\ binexp' = r.binexp
                 /\ IF r.binexp > 1023
                    THEN pc' = "return_possibly_signed_infinity"
                    ELSE /\ pc' = "returned"
                         /\ ret' = "value"
                         /\ binexp' \in -1023..1023
                         /\ ExponentField(bits') = binexp' + 1023
                         /\ ExponentField(bits') \in 0..2046

\* C27: from the scaled mantissa, a binary exponent <= -1087 leaves for signed zero;
\* for -1086 <= binexp <= -1023 the mantissa with its leading bit made explicit is
\* shifted right by -binexp - 1023, an amount in 0..63, and binexp becomes -1023; a
\* binary exponent > 1023 after rounding leaves for signed infinity; otherwise the
\* bit pattern is assembled with binexp in -1023..1023 and the exponent field
\* binexp + 1023 in 0..2046, and neither assertion on binexp ever fails.
RangeHandled ==
    /\ [][RangeStep]_vars
    /\ []("binexp <= 1023" \notin asserted /\ "binexp >= -1023" \notin asserted)

\* 1.5e-327 has been assembled after a shift by 63 bits: binexp was -1086
ShiftedBySixtyThree ==
    /\ pc = "returned"
    /\ ret = "value"
    /\ input = Bytes(<<"1", ".", "5", "e", "-", "3", "2", "7">>)
    /\ binexp = -1023
    /\ mantissa = U64(1)
    /\ bits = Zero64

(***************************************************************************)
(* Termination.  A call on a finite text, of which the window holds all    *)
(* or the bytes up to some position; the call is sequential code, so a     *)
(* step that can be taken is taken (weak fairness of Next).                *)
(***************************************************************************)
\* inputs that take a call through every loop and every exit: signs, digits, skipped
\* digits, exponents, both keywords, texts that fail, and values out of range
TerminationInputs ==
    {<< >>,
     Bytes(<<"x">>),
     Bytes(<<"-">>),
     Bytes(<<"+">>),
     Bytes(<<".">>),
     Bytes(<<"-", ".">>),
     Bytes(<<"0">>),
     Bytes(<<"-", "0">>),
     Bytes(<<"1">>),
     Bytes(<<"1", "2", ".", "5">>),
     Bytes(<<"-", "1", ".", "5", "e", "+", "3">>),
     Bytes(<<"1", "e">>),
     Bytes(<<"1", "e", "+">>),
     Bytes(<<"1", "e", "-">>),
     Bytes(<<"1", "e", "x">>),
     Bytes(<<"1", ".", "5", "e", "-", "3", "x">>),
     Bytes(<<"1", ".", ".">>),
     Bytes(<<"+", ".", "e", "1">>),
     Bytes(<<"0", "e", "0">>),
     Bytes(<<"0", ".", "0", "0", "0", "e", "5">>),
     Bytes(<<"1", "e", "4", "0", "0">>),
     Bytes(<<"1", "e", "-", "4", "0", "0">>),
     Bytes(<<"-", "1", "e", "9", "9", "9", "9", "9", "9", "9", "9", "9", "9", "9", "9", "9", "9", "9", "9", "9", "9", "9", "9">>),
     Bytes(<<"1", "e", "-", "9", "9", "9", "9", "9", "9", "9", "9", "9", "9", "9", "9", "9", "9", "9", "9", "9", "9", "9", "9">>),
     Bytes(<<"0", "e", "9", "9", "9", "9", "9", "9", "9", "9", "9", "9", "9", "9", "9", "9", "9", "9", "9", "9", "9", "9">>),
     Bytes(<<"1", "2", "3", "4", "5", "6", "7", "8", "9", "0", "1", "2", "3", "4", "5", "6", "7", "8", "9", "0", "1", "2", "3", "4", ".", "5", "e", "-", "3">>),
     Bytes(<<"1", "2", "3", "4", "5", "6", "7", "8", "9", "0", "1", "2", "3", "4", "5", "6", "7", "8", "9", "0", "1", "2", "3">>),
     Bytes(<<"1", "8", "4", "4", "6", "7", "4", "4", "0", "7", "3", "7", "0", "9", "5", "5", "1", "6", "1", "5">>),
     Bytes(<<"1", "8", "4", "4", "6", "7", "4", "4", "0", "7", "3", "7", "0", "9", "5", "5", "1", "6", "1", "6">>),
     Bytes(<<"i", "n", "f">>),
     Bytes(<<"-", "i", "n", "f">>),
     Bytes(<<"i", "a", "a">>),
     Bytes(<<"+", "i", "n", "f">>),
     Bytes(<<"-", "n", "a", "x">>),
     Bytes(<<"i", "n", "f", "x">>),
     Bytes(<<"i", "n">>),
     Bytes(<<"i">>),
     Bytes(<<"n", "a", "n">>),
     Bytes(<<"-", "n", "a", "n">>),
     Bytes(<<"+", "n", "a", "n">>),
     Bytes(<<"n", "a">>),
     Bytes(<<"n", "a", "x">>),
     Bytes(<<"i", "x", "y">>),
     Bytes(<<"n">>),
     Bytes(<<"-", "i">>),
     Bytes(<<"1", "E", "5">>),
     Bytes(<<"4", ".", "9", "4", "0", "6", "5", "6", "4", "5", "8", "4", "1", "2", "4", "6", "5", "4", "e", "-", "3", "2", "4">>),
     Bytes(<<"2", ".", "5", "e", "-", "3", "2", "4">>),
     Bytes(<<"1", "e", "-", "3", "2", "7">>),
     Bytes(<<"1", ".", "7", "9", "7", "6", "9", "3", "1", "3", "4", "8", "6", "2", "3", "1", "5", "7", "e", "3", "0", "8">>),
     Bytes(<<"1", ".", "7", "9", "7", "6", "9", "3", "1", "3", "4", "8", "6", "2", "3", "1", "5", "9", "e", "3", "0", "8">>),
     Bytes(<<"1", "e", "3", "0", "8">>),
     Bytes(<<"1", "e", "-", "5", "1", "1">>),
     Bytes(<<"1", ".", "5", "e", "5", "1", "2">>),
     Bytes(<<"0", ".", "2", "5", "e", "5", "1", "3">>)}

InitTerminates == \E in \in TerminationInputs : \E w \in 0..Len(in) : InitCall(in, w)

SpecTerminates == InitTerminates /\ [][Next]_vars /\ WF_vars(Next)

\* the labels in the order in which a call passes them; the goto statements and the
\* fall-through of parse_double lead forward in this order only
LabelOrder ==
    <<"start", "main", "skip_digits", "parse_exponent", "exponent_digits",
      "end_of_exponent", "parse_infinity", "parse_nan", "consume_word", "after_word",
      "end_of_number", "normalize", "round", "return_possibly_signed_infinity",
      "return_possibly_signed_zero", "failed", "returned">>

LabelRank(l) == CHOOSE i \in 1..Len(LabelOrder) : LabelOrder[i] = l

\* the labels that are loops: the main loop (236-415), the digit skipping loop
\* (392-409), the exponent digit loop (297-317) and datastream_consume_word (165-184)
LoopLabels == {"main", "skip_digits", "exponent_digits", "consume_word"}

\* what is left to do: labels to pass and bytes of the window to consume
StepsLeft ==
    (Len(LabelOrder) - LabelRank(pc)) + 2 * (end - ptr)

\* a step of a call: it leaves less to do; an iteration that stays in its loop
\* consumes exactly one byte of the window (an iteration that finds the window
\* empty calls datastream_fetch once and leaves the loop, since the window is
\* still empty); the cursor never moves back, so no byte is consumed again in a
\* later step (the put-back of lines 221, 224 and 295 undoes the read of the same
\* step)
TerminatingStep ==
    /\ StepsLeft' < StepsLeft
    /\ StepsLeft' >= 0
    /\ ptr' >= ptr
    /\ end' = end
    /\ pc \in LoopLabels /\ pc' = pc => ptr' = ptr + 1 /\ ptr' <= end
    /\ pc \in LoopLabels /\ ptr = end => pc' # pc

\* C28: every call on a finite window returns: each step leaves less to do (labels
\* to pass, bytes to consume), an iteration that stays in its loop consumes one
\* byte, an iteration that finds the window empty leaves its loop, the cursor never
\* moves back, and the call reaches its return.
CallTerminates == <>(pc = "returned") /\ [][TerminatingStep]_vars

\* a call on a window of at least five bytes has consumed all of it, found the
\* window empty, and returned a value
WholeWindowCallReturned ==
    /\ pc = "returned"
    /\ end >= 5
    /\ ptr = end
    /\ ret = "value"

\* ---------------------------------------------------------------------------
\* The histogram's sample counting: histogram_init, histogram_add and
\* histogram_commit with the automatic bin width (histogram.cpp)
\* ---------------------------------------------------------------------------

\* the most samples added to one histogram: histogram_add is called while nsamples
\* stays within it
MaxSamples == 7
\* the largest repeat count n handed to histogram_add
MaxRepeat == 3
\* the largest sample buffer handed to histogram_init
MaxBuf == 2

\* the samples added: one below the lower bounds, one in the first bins, one far up
HistSamples == {0 - 3, 2, 92}
\* the lower bound and the fixed bin widths handed to histogram_init (0: automatic)
HistLows == {1}
HistWidths == {0, 1, 3}

\* INT64_MAX and INT64_MIN, the values histogram_init gives min_sample and
\* max_sample: the model holds them as its extreme integers, which like them lie
\* beyond every sample
MostPositive == 2^30 + (2^30 - 1)
MostNegative == 0 - MostPositive

\* 2^48, the capacity of the bit-field n of a buffer entry, which like the extreme
\* integer of the model lies beyond every count the model reaches
CountLimit == MostPositive

\* void histogram_init(hist, nbins, bins, low, binwidth, sample_buf,
\* n_sample_buf_elements): the fields after the call; largest_samples_buf is null
\* and threshold_for_largest INT64_MAX, so that histogram_add never records a
\* largest sample
histogram_init(nbins, low, binwidth, n_sample_buf_elements) ==
    [low |-> low,
     bins |-> [i \in 1..nbins |-> 0],
     binwidth |-> binwidth,
     nsamples |-> 0,
     min_sample |-> MostPositive,
     max_sample |-> MostNegative,
     sum_samples |-> 0,
     sum_square_samples |-> 0,
     nbins |-> nbins,
     sample_buf |-> << >>,
     n_sample_buf_allocated |-> n_sample_buf_elements,
     n_sample_buf_used |-> 0,
     count_overflowed |-> FALSE,
     n_sample_buf_overflow |-> FALSE]

\* 2^16, the capacity of the bit-field sequence_index of a buffer entry
IndexLimit == 2^16

\* the assertions of histogram_init that fail for the arguments, for a hist and
\* bins that are not null: the first that fails, in the order of lines 48-52;
\* sample_buf is TRUE for a pointer to a buffer and FALSE for a null pointer
histogram_init_asserted(nbins, binwidth, sample_buf, n_sample_buf_elements) ==
    IF nbins < 3
    THEN {"nbins >= 3"}
    ELSE IF binwidth = 0 /\ ~(sample_buf /\ n_sample_buf_elements > 0)
         THEN {"binwidth > 0 || (sample_buf && n_sample_buf_elements > 0)"}
         ELSE IF n_sample_buf_elements >= IndexLimit
              THEN {"n_sample_buf_elements < ((uint64_t)1 << HistogramSampleN::n_bits_sequence_index)"}
              ELSE {}

\* histogram_bin_index without the limit of line 96: everything above the last
\* bin gets an index of its own
histogram_bin_index_unlimited(h, x) ==
    IF x < h.low
    THEN 0
    ELSE LET delta == (x - h.low) \div h.binwidth
         IN  1 + delta

\* uint32_t histogram_bin_index(hist, x): bin 0 is below low, the last bin takes
\* everything from low + (nbins - 2) * binwidth on
histogram_bin_index(h, x) ==
    IF x < h.low
    THEN 0
    ELSE LET delta == (x - h.low) \div h.binwidth
         IN  IF delta >= h.nbins - 1 THEN h.nbins - 1 ELSE 1 + delta

\* void histogram_add_to_bin(hist, x, n): bins[index] += n; the counts of the model
\* stay far below 2^64, where the sum would wrap and be replaced by UINT64_MAX
histogram_add_to_bin(h, x, n) ==
    LET index == histogram_bin_index(h, x)
    IN  [h EXCEPT !.bins[index + 1] = @ + n]

\* the assertions that fail in code that runs first and then later: a failed
\* assertion ends the program, so what follows it is not run
first_failed(first, later) == IF first # {} THEN first ELSE later

\* the assertions of histogram_add_to_bin and histogram_bin_index that fail
histogram_add_to_bin_asserted(h, x) ==
    IF h.binwidth = 0
    THEN {"hist->binwidth > 0"}
    ELSE IF histogram_bin_index(h, x) < h.nbins THEN {} ELSE {"index < hist->nbins"}

\* uint64_t round_to_multiple_of(factor, x), for x far below UINT64_MAX
round_to_multiple_of(f, x) == f * ((x + f \div 2) \div f)

\* the largest power of ten, from step on, that is at most binwidth
RECURSIVE largest_step(_, _)
largest_step(binwidth, step) ==
    IF step * 10 <= binwidth THEN largest_step(binwidth, step * 10) ELSE step

\* uint64_t histogram_round_binwidth(binwidth): a width of at least 10 is rounded
\* to a multiple of a tenth of the largest power of ten it reaches, which leaves it
\* two significant digits; the loop finds that power going down from 10^19. The
\* width beyond every sample stays beyond every sample (18 * 10^18 in the build
\* that produces it)
histogram_round_binwidth(binwidth) ==
    IF binwidth = MostPositive
    THEN MostPositive
    ELSE IF binwidth >= 10
         THEN round_to_multiple_of(largest_step(binwidth, 10) \div 10, binwidth)
         ELSE binwidth

\* compare_sample_and_n_and_index(a, b) < 0: by sample ascending, then by count
\* descending, then by sequence index ascending
compare_sample_and_n_and_index(a, b) ==
    \/ a.sample < b.sample
    \/ a.sample = b.sample /\ a.n > b.n
    \/ a.sample = b.sample /\ a.n = b.n /\ a.sequence_index < b.sequence_index

\* compare_index(a, b) < 0: by sequence index ascending
compare_index(a, b) == a.sequence_index < b.sequence_index

\* qsort(sample_buf, n_sample_buf_used, ..., compare_sample_and_n_and_index): the
\* entries differ in their sequence index, so the order is total and the result
\* of the sort is determined
RECURSIVE qsort(_)
qsort(buf) ==
    IF buf = << >>
    THEN << >>
    ELSE LET first == CHOOSE i \in 1..Len(buf) :
                          \A j \in 1..Len(buf) :
                              j = i \/ compare_sample_and_n_and_index(buf[i], buf[j])
         IN  <<buf[first]>> \o qsort(SubSeq(buf, 1, first - 1) \o SubSeq(buf, first + 1, Len(buf)))

\* qsort(sample_buf, n_sample_buf_used, ..., compare_index): the entries in the
\* order in which they were appended
RECURSIVE qsort_index(_)
qsort_index(buf) ==
    IF buf = << >>
    THEN << >>
    ELSE LET first == CHOOSE i \in 1..Len(buf) :
                          \A j \in 1..Len(buf) : ~compare_index(buf[j], buf[i])
         IN  <<buf[first]>> \o qsort_index(SubSeq(buf, 1, first - 1) \o SubSeq(buf, first + 1, Len(buf)))

\* the doubles the reading functions return: NaN, a number (held as twice its
\* value, since a bin centre can end in .5), or the centre of a bin whose width is
\* the one beyond every sample, where low + binwidth - 1 has wrapped
NaN == [kind |-> "nan", twice |-> 0]
Wrapped == [kind |-> "wrapped", twice |-> 0]
Finite(twice) == [kind |-> "finite", twice |-> twice]

\* the end of histogram_bin_center (lines 841-844): NaN when the range from low
\* to high is empty (the unsigned difference is then huge) or wider than a bin
bin_center(low, high, binwidth) ==
    IF high - low < 0 \/ high - low >= binwidth THEN NaN ELSE Finite(low + high)

\* double histogram_bin_center(hist, index) for binwidth > 0.  With the width
\* beyond every sample the lower bound of the last bin has wrapped below every
\* sample, and the bounds of a regular bin give the wrapped centre
histogram_bin_center(h, index) ==
    IF index >= h.nbins
    THEN NaN
    ELSE IF index = 0
         THEN IF h.nsamples = 0 \/ h.low = MostNegative
              THEN NaN
              ELSE bin_center(h.min_sample,
                              IF h.low - 1 > h.max_sample THEN h.max_sample ELSE h.low - 1,
                              h.binwidth)
         ELSE IF index = h.nbins - 1
              THEN IF h.nsamples = 0
                   THEN NaN
                   ELSE LET low == IF h.binwidth = MostPositive
                                   THEN MostNegative
                                   ELSE h.low + (index - 1) * h.binwidth
                        IN  bin_center(IF low < h.min_sample THEN h.min_sample ELSE low,
                                       h.max_sample, h.binwidth)
              ELSE IF h.binwidth = MostPositive
                   THEN Wrapped
                   ELSE LET low == h.low + (index - 1) * h.binwidth
                        IN  bin_center(low, low + h.binwidth - 1, h.binwidth)

\* the assertion of histogram_bin_center that fails
histogram_bin_center_asserted(h) ==
    IF h.binwidth > 0 THEN {} ELSE {"hist->binwidth > 0"}

\* the samples the entries of the buffer from entry i on stand for
RECURSIVE buffered_from(_, _)
buffered_from(buf, i) == IF i > Len(buf) THEN 0 ELSE buf[i].n + buffered_from(buf, i + 1)

\* the walk of histogram_order_statistic over the sorted buffer from entry i on
\* (lines 874-879), for an order within the samples buffered
RECURSIVE order_walk(_, _, _)
order_walk(buf, order, i) ==
    IF order > buf[i].n THEN order_walk(buf, order - buf[i].n, i + 1) ELSE buf[i].sample

\* the walk of histogram_order_statistic over the bins from index on (lines
\* 885-890): the index of the bin that holds the order, nbins when the bins end
\* before it
RECURSIVE bin_walk(_, _, _)
bin_walk(h, order, index) ==
    IF index >= h.nbins
    THEN h.nbins
    ELSE IF order > h.bins[index + 1]
         THEN bin_walk(h, order - h.bins[index + 1], index + 1)
         ELSE index

\* the assertions of histogram_order_statistic that fail, those of
\* histogram_bin_center included; the one of line 863 follows from the test of
\* line 860
histogram_order_statistic_asserted(h, order) ==
    IF order < 1 \/ order > h.nsamples \/ order = 1 \/ order = h.nsamples
    THEN {}
    ELSE IF ~h.n_sample_buf_overflow
         THEN IF h.n_sample_buf_allocated = 0
              THEN {"hist->sample_buf && hist->n_sample_buf_allocated > 0"}
              ELSE IF order > buffered_from(h.sample_buf, 1)
                   THEN {"sn < hist->sample_buf + hist->n_sample_buf_used"}
                   ELSE {}
         ELSE IF h.binwidth = 0
              THEN {"hist->binwidth"}
              ELSE IF bin_walk(h, order, 0) >= h.nbins
                   THEN {"index < hist->nbins"}
                   ELSE histogram_bin_center_asserted(h)

\* double histogram_order_statistic(hist, order): the value returned and the
\* buffer.  While the buffer has not overflowed the value is exact, and the call
\* leaves the buffer sorted by sample when it had to search it; after the
\* overflow the value is the centre of the bin that holds the order
histogram_order_statistic(h, order) ==
    IF order < 1 \/ order > h.nsamples
    THEN [value |-> NaN, sample_buf |-> h.sample_buf]
    ELSE IF order = 1
         THEN [value |-> Finite(2 * h.min_sample), sample_buf |-> h.sample_buf]
         ELSE IF order = h.nsamples
              THEN [value |-> Finite(2 * h.max_sample), sample_buf |-> h.sample_buf]
              ELSE IF histogram_order_statistic_asserted(h, order) # {}
                   THEN [value |-> NaN, sample_buf |-> h.sample_buf]
                   ELSE IF ~h.n_sample_buf_overflow
                        THEN LET sorted == qsort(h.sample_buf)
                             IN  [value |-> Finite(2 * order_walk(sorted, order, 1)),
                                  sample_buf |-> sorted]
                        ELSE [value |-> histogram_bin_center(h, bin_walk(h, order, 0)),
                              sample_buf |-> h.sample_buf]

\* the probabilities histogram_quantile is called with: 0.90 by the estimate of
\* the bin width, 0.5 by histogram_median, and 0.01, 0.25, 0.75 and 0.99 by
\* histogram_show, in hundredths
QuantilePercents == {1, 25, 50, 75, 90, 99}

\* continuous_j = nsamples * p + (p + 1) / 3 of histogram_quantile, in three
\* hundredths, for p = percent / 100.  For the probabilities of QuantilePercents
\* it is an integer only for p = 0.5, where the doubles of the code are exact, so
\* that floor gives the integer part of this in every case
continuous_j(h, percent) == 3 * h.nsamples * percent + percent + 100

\* the assertions that fail in the calls of histogram_order_statistic by
\* histogram_quantile (lines 918-919); the second call is not made when the first
\* fails
order_statistics_asserted(h, j) ==
    first_failed(histogram_order_statistic_asserted(h, j),
                 histogram_order_statistic_asserted(
                     [h EXCEPT !.sample_buf = histogram_order_statistic(h, j).sample_buf],
                     j + 1))

\* the assertions of histogram_quantile that fail, those of the calls it makes
\* included; its own (lines 912-916) follow from the tests of lines 907 and 909
histogram_quantile_asserted(h, percent) ==
    IF h.nsamples < 1 \/ continuous_j(h, percent) < 300
                      \/ continuous_j(h, percent) \div 300 >= h.nsamples
    THEN {}
    ELSE order_statistics_asserted(h, continuous_j(h, percent) \div 300)

\* double histogram_quantile(hist, p) for p = percent / 100, as six hundred times
\* its value: j is the integer part of continuous_j and gamma the rest, and the
\* value is (1 - gamma) * X_j + gamma * X_jp1, which the doubles of the code round;
\* the buffer is left as the two order statistics leave it
histogram_quantile(h, percent) ==
    LET j     == continuous_j(h, percent) \div 300
        gamma == continuous_j(h, percent) % 300
    IN  IF h.nsamples < 1
        THEN [kind |-> "nan", six_hundredths |-> 0, interpolated |-> FALSE,
              sample_buf |-> h.sample_buf]
        ELSE IF j < 1
             THEN [kind |-> "finite", six_hundredths |-> 600 * h.min_sample,
                   interpolated |-> FALSE, sample_buf |-> h.sample_buf]
             ELSE IF j >= h.nsamples
                  THEN [kind |-> "finite", six_hundredths |-> 600 * h.max_sample,
                        interpolated |-> FALSE, sample_buf |-> h.sample_buf]
                  ELSE LET X_j   == histogram_order_statistic(h, j)
                           X_jp1 == histogram_order_statistic(
                                        [h EXCEPT !.sample_buf = X_j.sample_buf], j + 1)
                           kind  == IF "nan" \in {X_j.value.kind, X_jp1.value.kind}
                                    THEN "nan"
                                    ELSE IF "wrapped" \in {X_j.value.kind, X_jp1.value.kind}
                                         THEN "wrapped"
                                         ELSE "finite"
                       IN  [kind |-> kind,
                            six_hundredths |-> IF kind = "finite"
                                               THEN (300 - gamma) * X_j.value.twice
                                                        + gamma * X_jp1.value.twice
                                               ELSE 0,
                            interpolated |-> TRUE,
                            sample_buf |-> X_jp1.sample_buf]

\* double histogram_median(hist)
histogram_median(h) == histogram_quantile(h, 50)

\* ceil(binwidth_fractional) in histogram_estimate_and_commit_binwidth:
\* span = (quantile - low) / 0.90 * 1.20 and binwidth_fractional = span / (nbins - 2),
\* which is 4 * (quantile - low) / (3 * (nbins - 2)).  The code computes it in
\* doubles, whose constants 0.90 and 1.20 and whose operations round; the error is
\* far less than the distance of a quotient that is no integer from the next
\* integer.  Where the exact quotient is an integer the doubles decide.  A
\* positive one from a quantile that is a sample comes out at the integer or just
\* below it, and the ceiling is the integer.  A negative one from such a quantile
\* comes out at the integer or just above it, as the divisions happen to round,
\* and an interpolated quantile carries the rounding of gamma and of the two
\* products in either direction: both ceilings are kept
ceil_binwidth_fractional(h) ==
    LET q   == histogram_quantile(h, 90)
        num == 4 * (q.six_hundredths - 600 * h.low)
        den == 1800 * (h.nbins - 2)
        c   == 0 - ((0 - num) \div den)
    IN  IF num % den = 0 /\ (q.interpolated \/ num < 0) THEN {c, c + 1} ELSE {c}

\* (uint64_t)ceil(binwidth_fractional): the conversion of a value of -1 or less is
\* undefined; the builds produce 0 (a saturating conversion) or the value plus
\* 2^64, a width beyond every sample
uint64_of_ceil(c) == IF c >= 0 THEN {c} ELSE {0, MostPositive}

\* the results (uint64_t)ceil(binwidth_fractional) can have for the histogram
converted_binwidths(h) ==
    IF h.nsamples = 0
    THEN {0}
    ELSE UNION {uint64_of_ceil(c) : c \in ceil_binwidth_fractional(h)}

\* the loop of histogram_estimate_and_commit_binwidth over the buffer, from entry
\* i on: every buffered sample is added to its bin
RECURSIVE add_buffered(_, _)
add_buffered(h, i) ==
    IF i > h.n_sample_buf_used
    THEN h
    ELSE add_buffered(histogram_add_to_bin(h, h.sample_buf[i].sample, h.sample_buf[i].n), i + 1)

\* histogram_estimate_and_commit_binwidth for nsamples > 0 up to its loop: the
\* buffer as the quantile leaves it and the width, rounded and at least 1, where
\* converted is the result of (uint64_t)ceil(binwidth_fractional)
estimated_binwidth(h, converted) ==
    LET rounded == histogram_round_binwidth(converted)
    IN  [h EXCEPT !.sample_buf = histogram_quantile(h, 90).sample_buf,
                  !.binwidth = IF rounded < 1 THEN 1 ELSE rounded]

\* void histogram_estimate_and_commit_binwidth(hist), where converted is the
\* result of (uint64_t)ceil(binwidth_fractional)
histogram_estimate_and_commit_binwidth(h, converted) ==
    IF h.nsamples = 0
    THEN [h EXCEPT !.binwidth = 1]
    ELSE add_buffered(estimated_binwidth(h, converted), 1)

\* the assertions that fail in the loop of histogram_estimate_and_commit_binwidth
\* and after it (lines 157-161), for the histogram e with the width estimated
add_buffered_asserted(e) ==
    UNION {histogram_add_to_bin_asserted(e, e.sample_buf[i].sample) :
               i \in 1..e.n_sample_buf_used}
        \cup (IF e.binwidth # 0 THEN {} ELSE {"hist->binwidth"})

\* the assertions of histogram_estimate_and_commit_binwidth that fail, those of
\* the calls it makes included
histogram_estimate_and_commit_binwidth_asserted(h, converted) ==
    IF h.binwidth # 0
    THEN {"!hist->binwidth"}
    ELSE IF h.n_sample_buf_overflow
         THEN {"!hist->n_sample_buf_overflow"}
         ELSE IF h.nsamples = 0
              THEN {}
              ELSE first_failed(
                       histogram_quantile_asserted(h, 90),
                       IF histogram_quantile(h, 90).kind = "nan"
                       THEN {"!isnan(quantile)"}
                       ELSE add_buffered_asserted(estimated_binwidth(h, converted)))

\* void histogram_commit(hist): fixes the bin width of a histogram that has none
histogram_commit(h, converted) ==
    IF h.binwidth # 0 THEN h ELSE histogram_estimate_and_commit_binwidth(h, converted)

\* the assertions of histogram_commit that fail
histogram_commit_asserted(h, converted) ==
    IF h.binwidth = 0
    THEN histogram_estimate_and_commit_binwidth_asserted(h, converted)
    ELSE {}

\* whether histogram_add adds to the last entry of the buffer (lines 219-222)
add_merges(h, x, n) ==
    LET used == h.n_sample_buf_used
    IN  /\ ~h.n_sample_buf_overflow
        /\ used > 0
        /\ h.sample_buf[used].sample = x
        /\ h.sample_buf[used].n < CountLimit - n
        /\ h.sample_buf[used].sequence_index = used - 1

\* whether histogram_add appends an entry to the buffer (lines 228-234)
add_appends(h, x, n) ==
    ~add_merges(h, x, n) /\ h.n_sample_buf_used # h.n_sample_buf_allocated

\* histogram_add up to the buffer: the statistics (lines 200-210; the counts of
\* the model stay far below 2^64, where nsamples would wrap) and the sample
\* buffer (lines 219-234)
histogram_add_buffer(h, x, n) ==
    LET used == h.n_sample_buf_used
        counted == [h EXCEPT !.min_sample = IF x < @ THEN x ELSE @,
                             !.max_sample = IF x > @ THEN x ELSE @,
                             !.sum_samples = @ + x * n,
                             !.sum_square_samples = @ + x * x * n,
                             !.nsamples = @ + n]
    IN  IF add_merges(h, x, n)
        THEN [counted EXCEPT !.sample_buf[used].n = @ + n]
        ELSE IF used = h.n_sample_buf_allocated
             THEN [counted EXCEPT !.n_sample_buf_overflow = TRUE]
             ELSE [counted EXCEPT
                       !.sample_buf = Append(@, [sample |-> x, n |-> n, sequence_index |-> used]),
                       !.n_sample_buf_used = used + 1]

\* whether this histogram_add estimates the bin width (line 237)
add_estimates(h, x, n) ==
    LET b == histogram_add_buffer(h, x, n)
    IN  n # 0 /\ b.binwidth = 0 /\ b.n_sample_buf_used = b.n_sample_buf_allocated

\* histogram_add up to line 240: the bin width is estimated when the histogram
\* has none and the buffer is full
histogram_add_estimate(h, x, n, converted) ==
    LET b == histogram_add_buffer(h, x, n)
    IN  IF add_estimates(h, x, n)
        THEN histogram_estimate_and_commit_binwidth(b, converted)
        ELSE b

\* void histogram_add(hist, x, n), where converted is the result of
\* (uint64_t)ceil(binwidth_fractional) if the call estimates the bin width
histogram_add(h, x, n, converted) ==
    IF n = 0
    THEN h
    ELSE LET e == histogram_add_estimate(h, x, n, converted)
         IN  IF e.binwidth # 0 THEN histogram_add_to_bin(e, x, n) ELSE e

\* the invariant histogram_add asserts on entry and on exit
add_invariant(h) == h.binwidth > 0 \/ h.n_sample_buf_used < h.n_sample_buf_allocated

\* the assertion of the invariant that fails for the histogram (lines 216 and 246)
add_invariant_asserted(h) ==
    IF add_invariant(h)
    THEN {}
    ELSE {"hist->binwidth > 0 || hist->n_sample_buf_used < hist->n_sample_buf_allocated"}

\* the assertions of lines 218-236 of histogram_add that fail
add_buffer_asserted(h, x, n) ==
    IF n >= CountLimit
    THEN {"n < ((uint64_t)1 << HistogramSampleN::n_bits_n)"}
    ELSE IF add_appends(h, x, n) /\ h.n_sample_buf_used >= h.n_sample_buf_allocated
         THEN {"hist->n_sample_buf_used < hist->n_sample_buf_allocated"}
         ELSE IF histogram_add_buffer(h, x, n).n_sample_buf_used > h.n_sample_buf_allocated
              THEN {"hist->n_sample_buf_used <= hist->n_sample_buf_allocated"}
              ELSE {}

\* the assertions that fail in the estimate histogram_add makes, if it makes one
add_estimate_asserted(h, x, n, converted) ==
    IF add_estimates(h, x, n)
    THEN histogram_estimate_and_commit_binwidth_asserted(histogram_add_buffer(h, x, n), converted)
    ELSE {}

\* the assertions that fail in the call of histogram_add_to_bin by histogram_add
\* (lines 242-243), for the histogram e the lines before have left
add_to_bin_asserted(e, x) ==
    IF e.binwidth # 0 THEN histogram_add_to_bin_asserted(e, x) ELSE {}

\* the assertions of histogram_add that fail, those of the calls it makes
\* included, in the order of the code up to the first that fails
histogram_add_asserted(h, x, n, converted) ==
    IF n = 0
    THEN {}
    ELSE first_failed(add_invariant_asserted(h),
         first_failed(add_buffer_asserted(h, x, n),
         first_failed(add_estimate_asserted(h, x, n, converted),
         first_failed(add_to_bin_asserted(histogram_add_estimate(h, x, n, converted), x),
                      add_invariant_asserted(histogram_add(h, x, n, converted))))))

\* a histogram as histogram_init leaves it, for arguments that pass its assertions:
\* the fewest bins and the most, and a sample buffer that has the elements the
\* call says it has (a null pointer has none)
InitHistogram ==
    /\ ParserUnused
    /\ frequent = [index |-> 0, n |-> 0, returned |-> "none"]
    /\ enumerated = << >>
    /\ \E nbins \in {3, MaxBins}, low \in HistLows, binwidth \in HistWidths,
          sample_buf \in BOOLEAN, nbuf \in 0..MaxBuf :
           /\ sample_buf \/ nbuf = 0
           /\ histogram_init_asserted(nbins, binwidth, sample_buf, nbuf) = {}
           /\ hist = histogram_init(nbins, low, binwidth, nbuf)

\* the results of the conversion in the estimate this histogram_add makes, if any
add_conversions(h, x, n) ==
    IF add_estimates(h, x, n) THEN converted_binwidths(histogram_add_buffer(h, x, n)) ELSE {0}

\* a call histogram_add(hist, x, n); a failed assertion ends the program with the
\* histogram as it was
HistogramAdd ==
    /\ \E x \in HistSamples, n \in {0, 1, MaxRepeat} :
           /\ hist.nsamples + n <= MaxSamples
           /\ \E converted \in add_conversions(hist, x, n) :
                  LET a == histogram_add_asserted(hist, x, n, converted)
                  IN  /\ asserted' = asserted \cup a
                      /\ hist' = IF a = {} THEN histogram_add(hist, x, n, converted) ELSE hist
    /\ UNCHANGED <<frequent, enumerated, factor, call_vars>>

\* a call histogram_commit(hist)
HistogramCommit ==
    /\ \E converted \in (IF hist.binwidth = 0 THEN converted_binwidths(hist) ELSE {0}) :
           LET a == histogram_commit_asserted(hist, converted)
           IN  /\ asserted' = asserted \cup a
               /\ hist' = IF a = {} THEN histogram_commit(hist, converted) ELSE hist
    /\ UNCHANGED <<frequent, enumerated, factor, call_vars>>

\* a call histogram_order_statistic(hist, order), for every order from one below
\* the samples to one above them
HistogramOrderStatistic ==
    /\ \E order \in 0..(hist.nsamples + 1) :
           LET a == histogram_order_statistic_asserted(hist, order)
           IN  /\ asserted' = asserted \cup a
               /\ hist' = IF a = {}
                          THEN [hist EXCEPT !.sample_buf =
                                    histogram_order_statistic(hist, order).sample_buf]
                          ELSE hist
    /\ UNCHANGED <<frequent, enumerated, factor, call_vars>>

\* a call histogram_quantile(hist, p)
HistogramQuantile ==
    /\ \E percent \in QuantilePercents :
           LET a == histogram_quantile_asserted(hist, percent)
           IN  /\ asserted' = asserted \cup a
               /\ hist' = IF a = {}
                          THEN [hist EXCEPT !.sample_buf =
                                    histogram_quantile(hist, percent).sample_buf]
                          ELSE hist
    /\ UNCHANGED <<frequent, enumerated, factor, call_vars>>

\* a call histogram_median(hist)
HistogramMedian ==
    /\ LET a == histogram_quantile_asserted(hist, 50)
       IN  /\ asserted' = asserted \cup a
           /\ hist' = IF a = {}
                      THEN [hist EXCEPT !.sample_buf = histogram_median(hist).sample_buf]
                      ELSE hist
    /\ UNCHANGED <<frequent, enumerated, factor, call_vars>>

\* the five quantiles histogram_show prints (lines 535-543), in the order of the
\* calls: the probabilities in hundredths
ShownPercents == <<1, 25, 50, 75, 99>>

\* the histogram after the calls of histogram_quantile for the probabilities of
\* ShownPercents from the i-th on
RECURSIVE show_quantiles(_, _)
show_quantiles(h, i) ==
    IF i > Len(ShownPercents)
    THEN h
    ELSE show_quantiles([h EXCEPT !.sample_buf = histogram_quantile(h, ShownPercents[i]).sample_buf],
                        i + 1)

\* the assertions that fail in those calls, up to the first call that fails
RECURSIVE show_quantiles_asserted(_, _)
show_quantiles_asserted(h, i) ==
    IF i > Len(ShownPercents)
    THEN {}
    ELSE first_failed(
             histogram_quantile_asserted(h, ShownPercents[i]),
             show_quantiles_asserted(
                 [h EXCEPT !.sample_buf = histogram_quantile(h, ShownPercents[i]).sample_buf],
                 i + 1))

\* the assertion in the loops of histogram_show and histogram_show_sample_buf over
\* the bins (lines 571 and 696): when the last bin is not empty, the largest
\* sample is not below the lower bound the loop has reached for it, which is
\* low + (nbins - 2) * binwidth
last_bin_asserted(h) ==
    IF h.bins[h.nbins] # 0 /\ h.max_sample < h.low + (h.nbins - 2) * h.binwidth
    THEN {"hist->max_sample >= low"}
    ELSE {}

\* void histogram_show(hist, indent, width, file): the histogram after the call,
\* where converted is the result of (uint64_t)ceil(binwidth_fractional) if the
\* call commits.  The call commits, and with samples it asks for five quantiles,
\* which sort the buffer; the text it writes to file is not part of the state
histogram_show(h, converted) ==
    LET c == histogram_commit(h, converted)
    IN  IF c.nsamples # 0 THEN show_quantiles(c, 1) ELSE c

\* the assertions of histogram_show that fail after histogram_commit, for the
\* histogram c it has left (lines 494-603)
shown_asserted(c, width) ==
    IF width < 1
    THEN {"width >= 1"}
    ELSE IF c.binwidth = 0
         THEN {"hist->binwidth > 0"}
         ELSE first_failed(IF c.nsamples # 0 THEN show_quantiles_asserted(c, 1) ELSE {},
                           last_bin_asserted(c))

\* the assertions of histogram_show that fail, those of the calls it makes
\* included, in the order of the code up to the first call that fails
histogram_show_asserted(h, width, converted) ==
    first_failed(histogram_commit_asserted(h, converted),
                 shown_asserted(histogram_commit(h, converted), width))

\* the samples the entries of the buffer in bin i stand for
RECURSIVE buffered_in_bin(_, _, _)
buffered_in_bin(h, i, j) ==
    IF j > h.n_sample_buf_used
    THEN 0
    ELSE (IF histogram_bin_index(h, h.sample_buf[j].sample) = i THEN h.sample_buf[j].n ELSE 0)
             + buffered_in_bin(h, i, j + 1)

\* whether bin i has a line in the output: a regular bin, or one that is not empty
bin_shown(h, i) == h.bins[i + 1] # 0 \/ (i > 0 /\ i < h.nbins - 1)

\* whether the loop of histogram_show_sample_buf over the buffer (lines 708-728)
\* finds, for bin i, an entry whose sequence index is below the number of entries
\* of the bin already printed plus the gaps before them: in a buffer sorted by
\* distinct sequence indices from 0 on it finds none
index_asserted(h, i) ==
    \E j \in 1..h.n_sample_buf_used :
        \E k \in 1..(j - 1) :
            /\ histogram_bin_index(h, h.sample_buf[k].sample) = i
            /\ h.sample_buf[j].sequence_index <= h.sample_buf[k].sequence_index

\* void histogram_show_sample_buf(hist, indent, file): the histogram after the
\* call, which commits and sorts the buffer by sequence index
histogram_show_sample_buf(h, converted) ==
    LET c == histogram_commit(h, converted)
    IN  [c EXCEPT !.sample_buf = qsort_index(@)]

\* the assertions of histogram_show_sample_buf that fail after histogram_commit and
\* the sort, and the calls of abort, for the histogram s they have left (lines
\* 680-741): the assertion of determine_display_widths, then the first bin of the
\* loop in which something fails, and in that bin line 696 (last bin only)
\* before line 710 (any entry of the buffer) before the abort of lines 727-730
shown_sample_buf_asserted(s) ==
    LET in_bin(i) ==
            IF ~bin_shown(s, i)
            THEN {}
            ELSE IF i = s.nbins - 1 /\ last_bin_asserted(s) # {}
                 THEN last_bin_asserted(s)
                 ELSE IF index_asserted(s, i)
                      THEN {"sn->sequence_index >= prev_sequence_index"}
                      ELSE IF buffered_in_bin(s, i, 1) > s.bins[i + 1]
                           THEN {"abort: BUFFERED_COUNT"}
                           ELSE {}
        failing == {i \in 0..(s.nbins - 1) : in_bin(i) # {}}
    IN  IF s.binwidth = 0
        THEN {"hist->binwidth > 0"}
        ELSE IF failing = {}
             THEN {}
             ELSE in_bin(CHOOSE i \in failing : \A k \in failing : i <= k)

\* the assertions of histogram_show_sample_buf that fail, those of the calls it
\* makes included, in the order of the code up to the first that fails
histogram_show_sample_buf_asserted(h, converted) ==
    first_failed(histogram_commit_asserted(h, converted),
                 shown_sample_buf_asserted(histogram_show_sample_buf(h, converted)))

\* void histogram_print_sample_buf(hist, indent, file): the histogram after the
\* call, which sorts a buffer with entries by sample and then by sequence index
histogram_print_sample_buf(h) ==
    IF h.n_sample_buf_used # 0
    THEN [h EXCEPT !.sample_buf = qsort_index(qsort(@))]
    ELSE h

\* the width of the bars main asks histogram_show for (parse_double.cpp, lines
\* 725-726)
ShownWidth == 70

\* a call histogram_show(hist, indent, width, file)
HistogramShow ==
    /\ \E converted \in (IF hist.binwidth = 0 THEN converted_binwidths(hist) ELSE {0}) :
           LET a == histogram_show_asserted(hist, ShownWidth, converted)
           IN  /\ asserted' = asserted \cup a
               /\ hist' = IF a = {} THEN histogram_show(hist, converted) ELSE hist
    /\ UNCHANGED <<frequent, enumerated, factor, call_vars>>

\* a call histogram_show_sample_buf(hist, indent, file)
HistogramShowSampleBuf ==
    /\ \E converted \in (IF hist.binwidth = 0 THEN converted_binwidths(hist) ELSE {0}) :
           LET a == histogram_show_sample_buf_asserted(hist, converted)
           IN  /\ asserted' = asserted \cup a
               /\ hist' = IF a = {} THEN histogram_show_sample_buf(hist, converted) ELSE hist
    /\ UNCHANGED <<frequent, enumerated, factor, call_vars>>

\* a call histogram_print_sample_buf(hist, indent, file)
HistogramPrintSampleBuf ==
    /\ hist' = histogram_print_sample_buf(hist)
    /\ UNCHANGED <<asserted, frequent, enumerated, factor, call_vars>>

\* the calls on a histogram: adding samples, committing, and the functions that
\* read it, which sort the buffer and commit on their way
NextHistogram ==
    \/ HistogramAdd
    \/ HistogramCommit
    \/ HistogramOrderStatistic
    \/ HistogramQuantile
    \/ HistogramMedian
    \/ HistogramShow
    \/ HistogramShowSampleBuf
    \/ HistogramPrintSampleBuf

SpecHistogram == InitHistogram /\ [][NextHistogram]_vars

\* the sum of bins[0..nbins-1]
RECURSIVE bins_sum(_, _)
bins_sum(bins, i) == IF i = 0 THEN 0 ELSE bins[i] + bins_sum(bins, i - 1)

\* C29: every sample is counted in exactly one bin exactly once: whenever the bin
\* width is known and no count has saturated, the bins add up to nsamples.
SamplesCountedOnce ==
    hist.binwidth > 0 /\ ~hist.count_overflowed => bins_sum(hist.bins, hist.nbins) = hist.nsamples

\* what the assertions of histogram_add state of the histogram between the calls
AddInvariants ==
    /\ add_invariant(hist)
    /\ hist.n_sample_buf_used <= hist.n_sample_buf_allocated
    /\ hist.n_sample_buf_used = Len(hist.sample_buf)
    /\ hist.binwidth > 0 => \A x \in HistSamples : histogram_bin_index(hist, x) < hist.nbins
    /\ asserted = {}

\* a call that estimates the bin width finds and leaves the buffer not overflowed
EstimatedWithoutOverflow ==
    hist.binwidth = 0 /\ hist'.binwidth # 0
        => ~hist.n_sample_buf_overflow /\ ~hist'.n_sample_buf_overflow

\* C30: for a histogram initialised by histogram_init, before and after every
\* histogram_add (and every other call on the histogram) binwidth > 0 or the
\* buffer has room,
\* n_sample_buf_used never exceeds n_sample_buf_allocated, the buffer has not
\* overflowed when the bin width is estimated, every bin index is below nbins, and
\* no assertion of the calls fails.
AssertedInvariantHolds == []AddInvariants /\ [][EstimatedWithoutOverflow]_vars

\* a histogram whose bin width was estimated inside the histogram_add that filled
\* the buffer (only that call counts a sample twice) and rounded to two digits,
\* and whose buffer overflowed afterwards
EstimatedInsideAdd ==
    /\ hist.binwidth >= 100
    /\ hist.binwidth # MostPositive
    /\ hist.n_sample_buf_used = hist.n_sample_buf_allocated
    /\ hist.n_sample_buf_used = MaxBuf
    /\ hist.n_sample_buf_overflow
    /\ bins_sum(hist.bins, hist.nbins) > hist.nsamples
    /\ hist.bins[1] > 0

====
